---- MODULE Spec2Model ----
(***************************************************************************)
(* A model of nolock's atomic reference-counted slot (src/src/sync):       *)
(* the tag codec and TaggedArc (tag.rs), the Atomic trait (atomic.rs) and  *)
(* its implementation for AtomicArc (pointer.rs), with and without the     *)
(* cargo feature "tag".                                                    *)
(*                                                                         *)
(* Machine words are naturals below 2^WordBits.  An allocation a made by   *)
(* Arc::new lives at address Addr(a), ArcDataOffset above its counts; its  *)
(* strong count is strong[a].  An execution is followed up to its first    *)
(* memory error (the strong count of a freed allocation is read or         *)
(* written, or a count is written where no allocation has one and the      *)
(* write does not pass unnoticed): the error is recorded in viol, and      *)
(* since the behaviour of the build after it is undefined, the model       *)
(* continues with none of its outcomes.  The slot's field is read without  *)
(* synchronisation by load while it is written through an atomic: such a   *)
(* read returns the slot's word or a word the slot held before (stale).    *)
(***************************************************************************)
EXTENDS Integers, Sequences, FiniteSets, Bags, TLC

\* ------------------------------------------------------------------ bounds
MaxCalls == 2
MaxAllocs == 2
MaxHeld == 2
MaxStrong == 3
WordBits == 8

\* The largest of the small tags given to the codec.
MaxTag == 17

Allocs == 1..MaxAllocs

\* ------------------------------------------------------- machine words
RECURSIVE Pow2(_)
Pow2(k) == IF k = 0 THEN 1 ELSE 2 * Pow2(k - 1)

WordMod == Pow2(WordBits)

RECURSIVE BitAnd(_, _)
BitAnd(x, y) ==
    IF x = 0 \/ y = 0 THEN 0
    ELSE (x % 2) * (y % 2) + 2 * BitAnd(x \div 2, y \div 2)

RECURSIVE BitOr(_, _)
BitOr(x, y) ==
    IF x = 0 THEN y
    ELSE IF y = 0 THEN x
    ELSE (IF x % 2 = 1 \/ y % 2 = 1 THEN 1 ELSE 0) + 2 * BitOr(x \div 2, y \div 2)

BitNot(x) == (WordMod - 1) - x

RECURSIVE trailing_zeros(_)
trailing_zeros(n) ==
    IF n = 0 THEN WordBits
    ELSE IF n % 2 = 1 THEN 0
    ELSE 1 + trailing_zeros(n \div 2)

\* ------------------------------------------------------------ tag codec
\* align_of::<Arc<T>>(): an Arc is one pointer.
ArcAlign == 8

AlignOfT == {4, 16}

\* A faulty mask that shifts by the alignment itself, not by its logarithm.
low_bits_shift_by_align(align) == (Pow2(align) % WordMod) - 1

low_bits(align) == (Pow2(trailing_zeros(align)) % WordMod) - 1

\* A faulty composition that ORs the tag into the word without clearing the
\* tag already there.
compose_tag_or(align, data, tag) ==
    LET mask == low_bits(align)
    IN  BitOr(data, BitAnd(tag, mask))

\* A faulty composition that always uses the mask of Arc<T>.
compose_tag_arc_mask(align, data, tag) ==
    LET mask == low_bits(ArcAlign)
    IN  BitOr(BitAnd(data, BitNot(mask)), BitAnd(tag, mask))

compose_tag(align, data, tag) ==
    LET mask == low_bits(align)
    IN  BitOr(BitAnd(data, BitNot(mask)), BitAnd(tag, mask))

\* A faulty decomposition that leaves the tag in the pointer.
decompose_tag_keeps_tag(align, data) ==
    LET mask == low_bits(align)
    IN  <<data, BitAnd(data, mask)>>

decompose_tag(align, data) ==
    LET mask == low_bits(align)
    IN  <<BitAnd(data, BitNot(mask)), BitAnd(data, mask)>>

\* ----------------------------------------------------------- allocator
\* Address of the pointee of allocation a (Arc::into_raw).
ArcDataOffset == 16
AllocSpan == 4 * ArcDataOffset
Addr(a) == AllocSpan * a

\* The allocation a raw pointer refers to; 0 when it is no pointee address.
AllocAt(ptr) ==
    IF \E a \in Allocs : Addr(a) = ptr
    THEN CHOOSE a \in Allocs : Addr(a) = ptr
    ELSE 0

Orderings == {"Relaxed", "Release", "Acquire", "AcqRel", "SeqCst"}

VARIABLES
    tag_feature,  \* cfg(feature = "tag")
    alignT,       \* align_of::<T>()
    slot,         \* AtomicArc.data, the slot's word
    stale,        \* the slot's word and the earlier words a plain read of the field can return
    slot_alive,   \* FALSE once the AtomicArc itself went out of scope
    strong,       \* strong count of each allocation
    status,       \* "unused" | "live" | "freed" per allocation
    viol,         \* memory errors that happened so far
    owned,        \* bag of the words of the live TaggedArc values
    shared,       \* bag of the pointers of the live Arc values
    calls,        \* bag of the frames of the calls the threads are in
    nullable,     \* the slot is an Option<Elem> (option.rs), not an AtomicArc
    probe         \* the arguments and results of the free functions under test

vars == <<tag_feature, alignT, slot, stale, slot_alive, strong, status, viol, owned, shared, calls,
          nullable, probe>>

\* The words a plain read can return once the slot's word is w: w itself and
\* every word the slot held before, which a build may still hold in a register
\* or as a constant.  A run is followed while the slot has held at most
\* MaxStale words besides the one it holds: a write of a further word is not
\* followed.
MaxStale == 2
Keep(w) ==
    IF Cardinality(stale \cup {w}) <= MaxStale + 1 THEN {stale \cup {w}} ELSE {}

\* What no method of a slot or of a value changes.
fixed == <<tag_feature, alignT, nullable, probe>>

\* No free function is under test.
NoProbe == [op |-> "none"]

\* The frame of a call: the operation, the position in it, the word it holds
\* (the word read, then the word of the value returned), the word of its
\* first argument, and what the call has added so far to the strong count of
\* the allocation it reads.
Frame(op, pc, kind, word, arg, delta) ==
    [op |-> op, pc |-> pc, kind |-> kind, word |-> word, arg |-> arg, delta |-> delta]

Init ==
    /\ tag_feature \in BOOLEAN
    /\ alignT \in AlignOfT
    /\ slot = Addr(1)
    /\ stale = {slot}
    /\ slot_alive = TRUE
    /\ strong = [a \in Allocs |-> IF a = 1 THEN 1 ELSE 0]
    /\ status = [a \in Allocs |-> IF a = 1 THEN "live" ELSE "unused"]
    /\ viol = {}
    /\ owned = EmptyBag
    /\ shared = EmptyBag
    /\ calls = EmptyBag
    /\ nullable = FALSE
    /\ probe = NoProbe

\* The program runs until the slot is dropped or memory is corrupted.
Alive == slot_alive /\ viol = {}

\* A call that has finished hands its value to the caller before anything
\* else happens: the return touches nothing but the caller's own values, so
\* every other order of the steps reaches the same states.
Running == Alive /\ \A f \in BagToSet(calls) : f.pc # "done"

Bag1(x) == SetToBag({x})

\* The values the slot's operations take and return (Atomic::Elem):
\* TaggedArc<T> with the feature "tag", Arc<T> without it.
ElemPool == IF tag_feature THEN owned ELSE shared

InFlight == BagCardinality(calls)

\* The program can hold one more value: every call in flight may return one.
Room == BagCardinality(owned) + BagCardinality(shared) + InFlight < MaxHeld

\* A thread is free to start a call.
ThreadFree == InFlight < MaxCalls

\* A TaggedArc that a running clone() holds by reference cannot be moved away.
Borrowed(h) == BagIn(Frame("clone", "clone_drop", "none", h, h, 1), calls)
Movable(h) == CopiesIn(h, owned) > (IF Borrowed(h) THEN 1 ELSE 0)

SetElemPool(b) ==
    IF tag_feature THEN owned' = b /\ UNCHANGED shared
    ELSE shared' = b /\ UNCHANGED owned

\* ------------------------------------------------- strong count (std Arc)
\* A count is reached through a pointer that is no pointee address; the
\* access lands on other memory.  Undefined behaviour: the memory is
\* corrupted, or, the counts being added to and taken from in pairs, the
\* access passes unnoticed.
WildCount ==
    /\ viol' \in {viol, viol \cup {"wild_pointer"}}
    /\ UNCHANGED <<strong, status>>

\* Arc::clone on the allocation a: fetch_add(1) on its strong count.
ArcCloneCount(a) ==
    IF a \in Allocs /\ status[a] = "live"
    THEN /\ strong[a] < MaxStrong
         /\ strong' = [strong EXCEPT ![a] = @ + 1]
         /\ UNCHANGED <<status, viol>>
    ELSE IF a \in Allocs
    THEN /\ viol' = viol \cup {"use_after_free"}
         /\ UNCHANGED <<strong, status>>
    ELSE WildCount

\* Drop of an Arc to the allocation a: fetch_sub(1), and the allocation is
\* freed by the call that saw the count 1.
ArcDropCount(a) ==
    IF a \in Allocs /\ status[a] = "live"
    THEN /\ strong' = [strong EXCEPT ![a] = @ - 1]
         /\ status' = [status EXCEPT ![a] = IF strong[a] = 1 THEN "freed" ELSE @]
         /\ viol' = viol
    ELSE IF a \in Allocs
    THEN /\ viol' = viol \cup {"use_after_free"}
         /\ UNCHANGED <<strong, status>>
    ELSE WildCount

\* Arc::new(value): an allocation with strong count 1, at an address that was
\* never used or at the address of an allocation that has been freed.
ArcNew ==
    /\ Running
    /\ Room
    /\ \E a \in Allocs :
        /\ \/ status[a] = "freed"
           \/ /\ status[a] = "unused"
              /\ \A b \in Allocs : b < a => status[b] # "unused"
        /\ status' = [status EXCEPT ![a] = "live"]
        /\ strong' = [strong EXCEPT ![a] = 1]
        /\ shared' = shared (+) Bag1(Addr(a))
    /\ UNCHANGED <<fixed, slot, stale, slot_alive, viol, owned, calls>>

\* Arc::clone of a shared reference held by the program.
ArcClone(p) ==
    /\ Running
    /\ BagIn(p, shared)
    /\ Room
    /\ ArcCloneCount(AllocAt(p))
    /\ shared' = shared (+) Bag1(p)
    /\ UNCHANGED <<fixed, slot, stale, slot_alive, owned, calls>>

\* A shared reference held by the program goes out of scope.
ArcDrop(p) ==
    /\ Running
    /\ BagIn(p, shared)
    /\ ArcDropCount(AllocAt(p))
    /\ shared' = shared (-) Bag1(p)
    /\ UNCHANGED <<fixed, slot, stale, slot_alive, owned, calls>>

\* ------------------------------------------------------------ TaggedArc
\* TaggedArc::from_arc / TaggedArc::new / From<Arc<T>>: Arc::into_raw.
from_arc(p) ==
    /\ Running /\ tag_feature
    /\ BagIn(p, shared)
    /\ shared' = shared (-) Bag1(p)
    /\ owned' = owned (+) Bag1(p)
    /\ UNCHANGED <<fixed, slot, stale, slot_alive, strong, status, viol, calls>>

\* TaggedArc::compose(ptr, tag): Arc::into_raw and compose_tag::<T>.
compose(p, t) ==
    /\ Running /\ tag_feature
    /\ BagIn(p, shared)
    /\ shared' = shared (-) Bag1(p)
    /\ owned' = owned (+) Bag1(compose_tag(alignT, p, t))
    /\ UNCHANGED <<fixed, slot, stale, slot_alive, strong, status, viol, calls>>

\* The pair TaggedArc::decompose makes of a handle's word: the pointer given
\* to Arc::from_raw and the tag.
DecomposeOut(h) == decompose_tag(ArcAlign, h)

\* TaggedArc::decompose(ptr): the handle becomes an Arc and a tag.
decompose(h) ==
    /\ Running /\ tag_feature
    /\ Movable(h)
    /\ owned' = owned (-) Bag1(h)
    /\ shared' = shared (+) Bag1(DecomposeOut(h)[1])
    /\ UNCHANGED <<fixed, slot, stale, slot_alive, strong, status, viol, calls>>

\* TaggedArc::into_arc: the tag is removed and Arc::from_raw takes the pointer.
into_arc(h) ==
    /\ Running /\ tag_feature
    /\ Movable(h)
    /\ owned' = owned (-) Bag1(h)
    /\ shared' = shared (+) Bag1(decompose_tag(ArcAlign, h)[1])
    /\ UNCHANGED <<fixed, slot, stale, slot_alive, strong, status, viol, calls>>

TagInputs == {0, 1, 9}

\* TaggedArc::with_tag(&self, tag): a second TaggedArc, the receiver stays.
with_tag(h, t) ==
    /\ Running /\ tag_feature
    /\ BagIn(h, owned)
    /\ Room
    /\ owned' = owned (+) Bag1(compose_tag(alignT, h, t))
    /\ UNCHANGED <<fixed, slot, stale, slot_alive, strong, status, viol, shared, calls>>

\* TaggedArc::as_raw and TaggedArc::tag: the two halves of the word.
as_raw(h) == decompose_tag(ArcAlign, h)[1]
tag(h) == decompose_tag(ArcAlign, h)[2]

\* A TaggedArc goes out of scope: the type has no Drop implementation.
TaggedArcDrop(h) ==
    /\ Running /\ tag_feature
    /\ Movable(h)
    /\ owned' = owned (-) Bag1(h)
    /\ UNCHANGED <<fixed, slot, stale, slot_alive, strong, status, viol, shared, calls>>

\* The pointer Clone hands to Arc::from_raw for the word w.
ClonePtr(w) == IF tag_feature THEN decompose_tag(ArcAlign, w)[1] ELSE w

\* The word of the value Clone returns for the word w:
\* TaggedArc::new(new).with_tag(tag), or the Arc itself.
CloneWord(w) ==
    IF tag_feature
    THEN LET d == decompose_tag(ArcAlign, w) IN compose_tag(alignT, d[1], d[2])
    ELSE w

\* The allocation the word of a value, or of the slot, refers to.
Pointee(w) == AllocAt(IF tag_feature THEN as_raw(w) ELSE w)

\* Clone for TaggedArc, up to and including Arc::clone(&ptr).
clone(h) ==
    /\ Running /\ tag_feature
    /\ ThreadFree
    /\ BagIn(h, owned)
    /\ Room
    /\ ArcCloneCount(AllocAt(ClonePtr(h)))
    /\ calls' = calls (+) Bag1(Frame("clone", "clone_drop", "none", h, h, 1))
    /\ UNCHANGED <<fixed, slot, stale, slot_alive, owned, shared>>

\* The end of Clone (and of load): the value is built and the local `ptr`,
\* the Arc made by Arc::from_raw, is dropped.  The load that opens
\* fetch_update goes on to the loop, every other call returns.
CloneDrop(f) ==
    /\ Running
    /\ BagIn(f, calls) /\ f.pc = "clone_drop"
    /\ ArcDropCount(AllocAt(ClonePtr(f.word)))
    /\ calls' = (calls (-) Bag1(f)) (+) Bag1(
          IF f.op = "fetch_update" /\ f.kind # "Ok"
          THEN Frame(f.op, "apply", IF f.kind = "Err" THEN "retry" ELSE "none",
                     CloneWord(f.word), f.arg, f.delta - 1)
          ELSE Frame(f.op, "done", IF f.kind = "none" THEN "Val" ELSE f.kind,
                     CloneWord(f.word), f.arg, f.delta - 1))
    /\ UNCHANGED <<fixed, slot, stale, slot_alive, owned, shared>>

\* ------------------------------------------------- Atomic for AtomicArc
\* A faulty check that lets an AcqRel load through.
LoadPanics_release_only(order) == order = "Release"

\* AtomicUsize::load panics for these orderings, AtomicUsize::store for those.
LoadPanics(order) == order \in {"Release", "AcqRel"}
StorePanics(order) == order \in {"Acquire", "AcqRel"}

\* TaggedArc::into_usize / Arc::into_raw as usize: the word of a value.
into_usize(h) == h

\* A faulty conversion that keeps the pointer and loses the tag.
from_usize_untagged(data) ==
    IF data = 0 THEN <<"None", 0>> ELSE <<"Some", decompose_tag(ArcAlign, data)[1]>>

\* TaggedArc::from_usize: None for the zero word.
from_usize(data) == IF data = 0 THEN <<"None", 0>> ELSE <<"Some", data>>

\* The outcome of `.expect("AtomicArc pointer must be non-zero")` on the
\* word an atomic operation returned; without the feature the word is
\* handed to Arc::from_raw as it is.
Expect(kind, data) ==
    IF tag_feature /\ from_usize(data)[1] = "None" THEN <<"Panic", 0>> ELSE <<kind, data>>

\* transmute_copy of the slot's field: a plain read, through a shared
\* reference, of a field the writers change through a reference to an
\* AtomicUsize.  Undefined behaviour: the build returns the word the slot
\* holds or a word it held before.
PlainRead == stale

\* load: the read of the slot's word and TaggedArc::from_usize(addr).expect(..).
load_call(order) ==
    /\ Running
    /\ ThreadFree
    /\ \E w \in PlainRead :
        calls' = calls (+) Bag1(
          IF LoadPanics(order) \/ Expect("Val", w)[1] = "Panic"
          THEN Frame("load", "done", "Panic", 0, 0, 0)
          ELSE Frame("load", "clone_inc", "none", w, 0, 0))
    /\ UNCHANGED <<fixed, slot, stale, slot_alive, strong, status, viol, owned, shared>>

\* A load by a caller that has room for the value.
load(order) == Room /\ load_call(order)

\* load: the clone of the borrowed view, up to and including Arc::clone(&ptr).
LoadClone(f) ==
    /\ Running
    /\ BagIn(f, calls) /\ f.pc = "clone_inc"
    /\ ArcCloneCount(AllocAt(ClonePtr(f.word)))
    /\ calls' = (calls (-) Bag1(f)) (+) Bag1(Frame(f.op, "clone_drop", f.kind, f.word, f.arg, f.delta + 1))
    /\ UNCHANGED <<fixed, slot, stale, slot_alive, owned, shared>>

\* A value of the pool that the caller can give away.
CanGive(val) == IF tag_feature THEN Movable(val) ELSE BagIn(val, shared)

store(val, order) ==
    /\ Running
    /\ ThreadFree
    /\ CanGive(val)
    /\ SetElemPool(ElemPool (-) Bag1(val))
    /\ slot' = IF StorePanics(order) THEN slot ELSE into_usize(val)
    /\ stale' \in Keep(slot')
    /\ calls' = calls (+) Bag1(Frame("store", "done", IF StorePanics(order) THEN "Panic" ELSE "Unit", 0, val, 0))
    /\ UNCHANGED <<fixed, slot_alive, strong, status, viol>>

\* A faulty swap that takes the value out of the slot and leaves the null word.
swap_leaving_null(val, order) ==
    /\ Running
    /\ ThreadFree
    /\ CanGive(val)
    /\ SetElemPool(ElemPool (-) Bag1(val))
    /\ slot' = 0
    /\ stale' \in Keep(slot')
    /\ calls' = calls (+) Bag1(Frame("swap", "done", "Val", slot, val, 0))
    /\ UNCHANGED <<fixed, slot_alive, strong, status, viol>>

\* A faulty swap that releases the value it replaces, as a store would, and
\* still returns it.
swap_releasing_old(val, order) ==
    /\ Running
    /\ ThreadFree
    /\ CanGive(val)
    /\ SetElemPool(ElemPool (-) Bag1(val))
    /\ slot' = into_usize(val)
    /\ stale' \in Keep(slot')
    /\ ArcDropCount(Pointee(slot))
    /\ calls' = calls (+) Bag1(Frame("swap", "done", "Val", slot, val, 0))
    /\ UNCHANGED <<fixed, slot_alive>>

swap(val, order) ==
    /\ Running
    /\ ThreadFree
    /\ CanGive(val)
    /\ SetElemPool(ElemPool (-) Bag1(val))
    /\ slot' = into_usize(val)
    /\ stale' \in Keep(slot')
    /\ LET old == Expect("Val", slot)
       IN  calls' = calls (+) Bag1(Frame("swap", "done", old[1], old[2], val, 0))
    /\ UNCHANGED <<fixed, slot_alive, strong, status, viol>>

CasOrders == {<<"SeqCst", "SeqCst">>, <<"AcqRel", "Acquire">>, <<"Release", "Relaxed">>, <<"SeqCst", "Release">>}

\* The failure ordering of a compare-exchange cannot be Release or AcqRel.
CasPanics(success, failure) == failure \in {"Release", "AcqRel"}

\* A faulty compare-exchange that compares the pointer bits only.
cas_word_ignoring_tag(mem, current, new) ==
    IF decompose_tag(ArcAlign, mem)[1] = decompose_tag(ArcAlign, current)[1]
    THEN <<"Ok", mem, new>>
    ELSE <<"Err", mem, mem>>

\* A faulty compare-exchange that reports the expected word on failure.
cas_word_err_current(mem, current, new) ==
    IF mem = current THEN <<"Ok", mem, new>> ELSE <<"Err", current, mem>>

\* A faulty compare-exchange that installs new without comparing.
cas_word_unconditional(mem, current, new) == <<"Ok", mem, new>>

\* AtomicUsize::compare_exchange(current, new) on a word holding mem:
\* <<Ok or Err, the word returned, the word left in memory>>.
cas_word(mem, current, new) ==
    IF mem = current THEN <<"Ok", mem, new>> ELSE <<"Err", mem, mem>>

\* A faulty weak compare-exchange that writes current back when the
\* comparison fails.
cas_word_weak_restores(mem, current, new, spurious) ==
    IF spurious THEN <<"Err", mem, mem>>
    ELSE IF mem = current THEN <<"Ok", mem, new>>
    ELSE <<"Err", mem, current>>

\* A faulty weak compare-exchange whose spurious outcome is a success.
cas_word_weak_spurious_ok(mem, current, new, spurious) ==
    IF spurious THEN <<"Ok", mem, new>> ELSE cas_word(mem, current, new)

\* A faulty weak compare-exchange whose spurious failure still writes new.
cas_word_weak_writes(mem, current, new, spurious) ==
    IF spurious THEN <<"Err", mem, new>> ELSE cas_word(mem, current, new)

\* AtomicUsize::compare_exchange_weak: as the strong form, or a failure
\* that leaves the word alone although it equals current.
cas_word_weak(mem, current, new, spurious) ==
    IF spurious THEN <<"Err", mem, mem>> ELSE cas_word(mem, current, new)

\* Both arguments of a compare-exchange are values the caller gives away.
CasArgs(current, new) ==
    /\ BagIn(current, ElemPool) /\ BagIn(new, ElemPool)
    /\ CopiesIn(current, ElemPool) >=
          (IF current = new THEN 2 ELSE 1) + (IF tag_feature /\ Borrowed(current) THEN 1 ELSE 0)
    /\ tag_feature => Movable(new)

\* What both compare-exchanges do with the outcome r of the atomic operation,
\* or with the panic of the atomic operation on its orderings.
CasFinish(name, current, new, panics, r) ==
    /\ SetElemPool((ElemPool (-) Bag1(current)) (-) Bag1(new))
    /\ slot' = IF panics THEN slot ELSE r[3]
    /\ stale' \in Keep(slot')
    /\ LET e == Expect(r[1], r[2])
       IN  calls' = calls (+) Bag1(IF panics THEN Frame(name, "done", "Panic", 0, current, 0)
                                   ELSE Frame(name, "done", e[1], e[2], current, 0))
    /\ UNCHANGED <<fixed, slot_alive, strong, status, viol>>

\* A faulty compare_exchange that installs new whenever the slot holds the
\* pointer of current, whatever the tags.
compare_exchange_untagged(current, new, success, failure) ==
    /\ Running
    /\ ThreadFree
    /\ CasArgs(current, new)
    /\ CasFinish("compare_exchange", current, new, CasPanics(success, failure),
                 IF as_raw(slot) = as_raw(current)
                 THEN <<"Ok", slot, into_usize(new)>>
                 ELSE <<"Err", slot, slot>>)

compare_exchange(current, new, success, failure) ==
    /\ Running
    /\ ThreadFree
    /\ CasArgs(current, new)
    /\ CasFinish("compare_exchange", current, new, CasPanics(success, failure),
                 cas_word(slot, into_usize(current), into_usize(new)))

compare_exchange_weak(current, new, success, failure, spurious) ==
    /\ Running
    /\ ThreadFree
    /\ CasArgs(current, new)
    /\ CasFinish("compare_exchange_weak", current, new, CasPanics(success, failure),
                 cas_word_weak(slot, into_usize(current), into_usize(new), spurious))

\* ------------------------------------------------- Atomic::fetch_update
\* fetch_update(set_order, fetch_order, f), up to the read of the slot's word
\* by self.load(fetch_order).  The frame keeps in arg the word the call read
\* last from the slot.
fetch_update(set_order, fetch_order) ==
    /\ Running
    /\ ThreadFree
    /\ Room
    /\ \E w \in PlainRead :
        calls' = calls (+) Bag1(
          IF LoadPanics(fetch_order) \/ Expect("Val", w)[1] = "Panic"
          THEN Frame("fetch_update", "done", "Panic", 0, 0, 0)
          ELSE Frame("fetch_update", "clone_inc", "none", w, w, 0))
    /\ UNCHANGED <<fixed, slot, stale, slot_alive, strong, status, viol, owned, shared>>

\* What the closure f can answer for prev: None, Some of a value it had
\* captured, or Some(prev.with_tag(t)).
FnResults(prev) ==
    {[kind |-> "None", from |-> "none", word |-> 0]}
    \cup {[kind |-> "Some", from |-> "captured", word |-> v] : v \in {u \in BagToSet(ElemPool) : CanGive(u)}}
    \cup (IF tag_feature
          THEN {[kind |-> "Some", from |-> "with_tag", word |-> compose_tag(alignT, prev, t)] : t \in TagInputs}
          ELSE {})

\* A faulty turn of the loop that, when its compare-exchange fails, goes on
\* with the next it had proposed instead of the word the slot holds.
FuApply_takes_next(f, r, spurious) ==
    /\ Running
    /\ BagIn(f, calls) /\ f.pc = "apply"
    /\ r \in FnResults(f.word)
    /\ IF r.from = "captured"
       THEN SetElemPool(ElemPool (-) Bag1(r.word))
       ELSE UNCHANGED <<owned, shared>>
    /\ LET c == cas_word_weak(slot, into_usize(f.word), into_usize(r.word), spurious)
           e == Expect(c[1], c[2])
       IN  IF r.kind = "None"
           THEN /\ slot' = slot
                /\ stale' \in Keep(slot')
                /\ calls' = (calls (-) Bag1(f)) (+) Bag1(Frame(f.op, "done", "Err", f.word, f.arg, f.delta))
           ELSE /\ slot' = c[3]
                /\ stale' \in Keep(slot')
                /\ calls' = (calls (-) Bag1(f)) (+) Bag1(
                      IF e[1] = "Err"
                      THEN Frame(f.op, "apply", "retry", r.word, c[2], f.delta)
                      ELSE Frame(f.op, "done", e[1], e[2], f.arg, f.delta))
    /\ UNCHANGED <<fixed, slot_alive, strong, status, viol>>

\* One turn of the loop of fetch_update: f(&prev), and for Some(next) the
\* compare_exchange_weak(prev, next, set_order, fetch_order).  A frame that
\* goes round the loop again is marked "retry".
FuApply(f, r, spurious) ==
    /\ Running
    /\ BagIn(f, calls) /\ f.pc = "apply"
    /\ r \in FnResults(f.word)
    /\ IF r.from = "captured"
       THEN SetElemPool(ElemPool (-) Bag1(r.word))
       ELSE UNCHANGED <<owned, shared>>
    /\ LET c == cas_word_weak(slot, into_usize(f.word), into_usize(r.word), spurious)
           e == Expect(c[1], c[2])
       IN  IF r.kind = "None"
           THEN /\ slot' = slot
                /\ stale' \in Keep(slot')
                /\ calls' = (calls (-) Bag1(f)) (+) Bag1(Frame(f.op, "done", "Err", f.word, f.arg, f.delta))
           ELSE /\ slot' = c[3]
                /\ stale' \in Keep(slot')
                /\ calls' = (calls (-) Bag1(f)) (+) Bag1(
                      IF e[1] = "Err"
                      THEN Frame(f.op, "apply", "retry", e[2], c[2], f.delta)
                      ELSE Frame(f.op, "done", e[1], e[2], f.arg, f.delta))
    /\ UNCHANGED <<fixed, slot_alive, strong, status, viol>>

\* The caller receives the value a call returned.
Return(f) ==
    /\ Alive
    /\ BagIn(f, calls) /\ f.pc = "done"
    /\ IF f.kind \in {"Val", "Ok", "Err"}
       THEN SetElemPool(ElemPool (+) Bag1(f.word))
       ELSE UNCHANGED <<owned, shared>>
    /\ calls' = calls (-) Bag1(f)
    /\ UNCHANGED <<fixed, slot, stale, slot_alive, strong, status, viol>>

\* The slot goes out of scope.  AtomicArc and TaggedArc have no Drop
\* implementation; an Option<Arc<T>> drops the Arc it finds in itself, whose
\* pointer is the word and whose pointee lies ArcDataOffset above it.
DropSlot ==
    /\ Running
    /\ calls = EmptyBag
    /\ slot_alive' = FALSE
    /\ IF nullable /\ ~tag_feature
       THEN \E w \in PlainRead :
               IF w = 0 THEN UNCHANGED <<strong, status, viol>>
               ELSE ArcDropCount(AllocAt(w + ArcDataOffset))
       ELSE UNCHANGED <<strong, status, viol>>
    /\ UNCHANGED <<fixed, slot, stale, owned, shared, calls>>

Next ==
    \/ ArcNew
    \/ \E p \in BagToSet(shared) : ArcClone(p)
    \/ \E p \in BagToSet(shared) : ArcDrop(p)
    \/ \E p \in BagToSet(shared) : from_arc(p)
    \/ \E h \in BagToSet(owned) : into_arc(h)
    \/ \E h \in BagToSet(owned) : TaggedArcDrop(h)
    \/ \E h \in BagToSet(owned), t \in TagInputs : with_tag(h, t)
    \/ \E h \in BagToSet(owned) : clone(h)
    \/ \E f \in BagToSet(calls) : CloneDrop(f)
    \/ \E f \in BagToSet(calls) : LoadClone(f)
    \/ \E f \in BagToSet(calls) : Return(f)
    \/ \E order \in Orderings : load(order)
    \/ \E order \in Orderings, val \in BagToSet(ElemPool) : store(val, order)
    \/ \E order \in Orderings, val \in BagToSet(ElemPool) : swap(val, order)
    \/ \E current \in BagToSet(ElemPool), new \in BagToSet(ElemPool), o \in CasOrders :
          compare_exchange(current, new, o[1], o[2])
    \/ \E current \in BagToSet(ElemPool), new \in BagToSet(ElemPool), o \in CasOrders, spurious \in BOOLEAN :
          compare_exchange_weak(current, new, o[1], o[2], spurious)
    \/ DropSlot

Spec == Init /\ [][Next]_vars

\* The slot under fetch_update, with store and swap as the writers that run
\* beside it.
NextFU ==
    \/ ArcNew
    \/ \E p \in BagToSet(shared) : ArcDrop(p)
    \/ \E p \in BagToSet(shared) : from_arc(p)
    \/ \E h \in BagToSet(owned) : TaggedArcDrop(h)
    \/ \E h \in BagToSet(owned), t \in TagInputs : with_tag(h, t)
    \/ \E f \in BagToSet(calls) : CloneDrop(f)
    \/ \E f \in BagToSet(calls) : LoadClone(f)
    \/ \E f \in BagToSet(calls) : Return(f)
    \/ \E order \in Orderings, val \in BagToSet(ElemPool) : store(val, order)
    \/ \E order \in Orderings, val \in BagToSet(ElemPool) : swap(val, order)
    \/ \E o \in CasOrders : fetch_update(o[1], o[2])
    \/ \E f \in BagToSet(calls), spurious \in BOOLEAN :
          \E r \in FnResults(f.word) : FuApply(f, r, spurious)

SpecFU == Init /\ [][NextFU]_vars

\* ---------------------------------------------------------------------------
\* The nullable slot: Option<TaggedArc<T>> and Option<Arc<T>> used as the
\* atomic word itself; the zero word is None.
InitOpt ==
    /\ tag_feature \in BOOLEAN
    /\ alignT \in AlignOfT
    /\ nullable = TRUE
    /\ slot \in {0, IF tag_feature THEN Addr(1) ELSE Addr(1) - ArcDataOffset}
    /\ stale = {slot}
    /\ slot_alive = TRUE
    /\ strong = [a \in Allocs |-> IF a = 1 /\ slot # 0 THEN 1 ELSE 0]
    /\ status = [a \in Allocs |-> IF a = 1 /\ slot # 0 THEN "live" ELSE "unused"]
    /\ viol = {}
    /\ owned = EmptyBag
    /\ shared = EmptyBag
    /\ calls = EmptyBag
    /\ probe = NoProbe

\* transmute::<Option<..>, usize>(val): zero for None; the word of a
\* TaggedArc; and for an Arc the pointer it holds, which is the address of its
\* ArcInner, ArcDataOffset below the pointee that Arc::into_raw returns.
opt_into_usize(val) ==
    IF val = 0 THEN 0
    ELSE IF tag_feature THEN into_usize(val)
    ELSE val - ArcDataOffset

\* The addresses of the model are AllocSpan apart: a value whose word would
\* be the address of another allocation, or zero, is not followed.
OptFits(val) ==
    val = 0 \/ tag_feature \/ (val - ArcDataOffset) % AllocSpan # 0

\* Option::load: None for the zero word, otherwise a clone of the value.
opt_load(order) ==
    /\ nullable
    /\ Running
    /\ ThreadFree
    /\ Room
    /\ \E w \in PlainRead :
        calls' = calls (+) Bag1(
          IF LoadPanics(order) THEN Frame("load", "done", "Panic", 0, 0, 0)
          ELSE IF from_usize(w)[1] = "None" THEN Frame("load", "done", "None", 0, 0, 0)
          ELSE Frame("load", "clone_inc", "none", w, 0, 0))
    /\ UNCHANGED <<fixed, slot, stale, slot_alive, strong, status, viol, owned, shared>>

\* Option::is_none on the slot, as the tests call it: a read of the field
\* without synchronisation, true for the zero word.
is_none ==
    /\ nullable
    /\ Running
    /\ ThreadFree
    /\ \E w \in PlainRead :
        calls' = calls (+) Bag1(Frame("is_none", "done", IF w = 0 THEN "True" ELSE "False", 0, 0, 0))
    /\ UNCHANGED <<fixed, slot, stale, slot_alive, strong, status, viol, owned, shared>>

\* Option::store: the word of new (zero for None) replaces the slot's word.
opt_store(val, order) ==
    /\ nullable
    /\ Running
    /\ ThreadFree
    /\ IF val = 0
       THEN UNCHANGED <<owned, shared>>
       ELSE CanGive(val) /\ SetElemPool(ElemPool (-) Bag1(val))
    /\ OptFits(val)
    /\ slot' = IF StorePanics(order) THEN slot ELSE opt_into_usize(val)
    /\ stale' \in Keep(slot')
    /\ calls' = calls (+) Bag1(Frame("store", "done", IF StorePanics(order) THEN "Panic" ELSE "Unit", 0, val, 0))
    /\ UNCHANGED <<fixed, slot_alive, strong, status, viol>>

\* The kind of a result whose word is data: a None result carries no value.
OptKind(kind, data) ==
    IF from_usize(data)[1] = "Some" THEN kind
    ELSE IF kind = "Ok" THEN "OkNone"
    ELSE IF kind = "Err" THEN "ErrNone"
    ELSE "None"

\* The values a caller can pass to the nullable slot: None or a value it owns.
OptValues == BagToSet(ElemPool) \cup {0}

\* Option::swap: the word of new replaces the slot's word, and the old word
\* comes back as a value (None for the zero word).
opt_swap(val, order) ==
    /\ nullable
    /\ Running
    /\ ThreadFree
    /\ IF val = 0
       THEN Room /\ UNCHANGED <<owned, shared>>
       ELSE CanGive(val) /\ SetElemPool(ElemPool (-) Bag1(val))
    /\ OptFits(val)
    /\ slot' = opt_into_usize(val)
    /\ stale' \in Keep(slot')
    /\ calls' = calls (+) Bag1(Frame("swap", "done", OptKind("Val", slot), slot, val, 0))
    /\ UNCHANGED <<fixed, slot_alive, strong, status, viol>>

\* Both arguments of a compare-exchange on the nullable slot are given away;
\* None takes nothing from the caller.
OptCasArgs(current, new) ==
    IF current = 0 /\ new = 0 THEN Room /\ UNCHANGED <<owned, shared>>
    ELSE IF current = 0 THEN CanGive(new) /\ SetElemPool(ElemPool (-) Bag1(new))
    ELSE IF new = 0 THEN CanGive(current) /\ SetElemPool(ElemPool (-) Bag1(current))
    ELSE CasArgs(current, new) /\ SetElemPool((ElemPool (-) Bag1(current)) (-) Bag1(new))

\* Option::compare_exchange: the word the atomic operation returns becomes
\* the value of the result.  The frame keeps that word in arg.
opt_compare_exchange(current, new, success, failure) ==
    /\ nullable
    /\ Running
    /\ ThreadFree
    /\ OptCasArgs(current, new)
    /\ OptFits(current) /\ OptFits(new)
    /\ LET r == cas_word(slot, opt_into_usize(current), opt_into_usize(new))
       IN  IF CasPanics(success, failure)
           THEN /\ slot' = slot
                /\ stale' \in Keep(slot')
                /\ calls' = calls (+) Bag1(Frame("compare_exchange", "done", "Panic", 0, 0, 0))
           ELSE /\ slot' = r[3]
                /\ stale' \in Keep(slot')
                /\ calls' = calls (+) Bag1(
                      Frame("compare_exchange", "done", OptKind(r[1], r[2]), r[2], r[2], 0))
    /\ UNCHANGED <<fixed, slot_alive, strong, status, viol>>

\* Option::compare_exchange_weak: as above; Option<TaggedArc<T>> goes on to
\* clone the value of the result, Option<Arc<T>> returns it as it is.
opt_compare_exchange_weak(current, new, success, failure, spurious) ==
    /\ nullable
    /\ Running
    /\ ThreadFree
    /\ OptCasArgs(current, new)
    /\ OptFits(current) /\ OptFits(new)
    /\ LET r == cas_word_weak(slot, opt_into_usize(current), opt_into_usize(new), spurious)
       IN  IF CasPanics(success, failure)
           THEN /\ slot' = slot
                /\ stale' \in Keep(slot')
                /\ calls' = calls (+) Bag1(Frame("compare_exchange_weak", "done", "Panic", 0, 0, 0))
           ELSE /\ slot' = r[3]
                /\ stale' \in Keep(slot')
                /\ calls' = calls (+) Bag1(
                      IF tag_feature /\ from_usize(r[2])[1] = "Some"
                      THEN Frame("compare_exchange_weak", "clone_inc", r[1], r[2], r[2], 0)
                      ELSE Frame("compare_exchange_weak", "done", OptKind(r[1], r[2]), r[2], r[2], 0))
    /\ UNCHANGED <<fixed, slot_alive, strong, status, viol>>

\* fetch_update on the nullable slot, up to the read of the slot's word by
\* self.load(fetch_order): None, or a value to clone.
opt_fetch_update(set_order, fetch_order) ==
    /\ nullable
    /\ Running
    /\ ThreadFree
    /\ Room
    /\ \E w \in PlainRead :
        calls' = calls (+) Bag1(
          IF LoadPanics(fetch_order) THEN Frame("fetch_update", "done", "Panic", 0, 0, 0)
          ELSE IF from_usize(w)[1] = "None" THEN Frame("fetch_update", "apply", "none", 0, 0, 0)
          ELSE Frame("fetch_update", "clone_inc", "none", w, w, 0))
    /\ UNCHANGED <<fixed, slot, stale, slot_alive, strong, status, viol, owned, shared>>

\* What the closure f can answer for prev on the nullable slot: None,
\* Some(None), Some of a value it had captured, or Some(prev.with_tag(t)).
OptFnResults(prev) ==
    {[kind |-> "None", from |-> "none", word |-> 0],
     [kind |-> "Some", from |-> "none", word |-> 0]}
    \cup {[kind |-> "Some", from |-> "captured", word |-> v] :
             v \in {u \in BagToSet(ElemPool) : CanGive(u) /\ OptFits(u)}}
    \cup (IF tag_feature /\ prev # 0
          THEN {[kind |-> "Some", from |-> "with_tag", word |-> compose_tag(alignT, prev, t)] : t \in TagInputs}
          ELSE {})

\* One turn of the loop of fetch_update on the nullable slot: f(&prev), and
\* for Some(next) the compare_exchange_weak(prev, next, ..), whose result
\* Option<TaggedArc<T>> goes on to clone.
OptFuApply(f, r, spurious) ==
    /\ nullable
    /\ Running
    /\ BagIn(f, calls) /\ f.op = "fetch_update" /\ f.pc = "apply"
    /\ r \in OptFnResults(f.word)
    /\ OptFits(f.word)
    /\ IF r.from = "captured"
       THEN SetElemPool(ElemPool (-) Bag1(r.word))
       ELSE UNCHANGED <<owned, shared>>
    /\ LET c == cas_word_weak(slot, opt_into_usize(f.word), opt_into_usize(r.word), spurious)
       IN  IF r.kind = "None"
           THEN /\ slot' = slot
                /\ stale' \in Keep(slot')
                /\ calls' = (calls (-) Bag1(f)) (+) Bag1(
                      Frame(f.op, "done", OptKind("Err", f.word), f.word, f.arg, f.delta))
           ELSE /\ slot' = c[3]
                /\ stale' \in Keep(slot')
                /\ calls' = (calls (-) Bag1(f)) (+) Bag1(
                      IF tag_feature /\ from_usize(c[2])[1] = "Some"
                      THEN Frame(f.op, "clone_inc", c[1], c[2], c[2], f.delta)
                      ELSE IF c[1] = "Err"
                      THEN Frame(f.op, "apply", "retry", c[2], c[2], f.delta)
                      ELSE Frame(f.op, "done", OptKind(c[1], c[2]), c[2], f.arg, f.delta))
    /\ UNCHANGED <<fixed, slot_alive, strong, status, viol>>

\* load and store of whichever slot variant the program uses.
LoadAny(order) == (~nullable /\ load(order)) \/ opt_load(order)
StoreAny(val, order) == (~nullable /\ val # 0 /\ store(val, order)) \/ opt_store(val, order)

NextOpt ==
    \/ ArcNew
    \/ \E p \in BagToSet(shared) : ArcDrop(p)
    \/ \E p \in BagToSet(shared) : from_arc(p)
    \/ \E h \in BagToSet(owned) : TaggedArcDrop(h)
    \/ \E h \in BagToSet(owned), t \in TagInputs : with_tag(h, t)
    \/ \E f \in BagToSet(calls) : CloneDrop(f)
    \/ \E f \in BagToSet(calls) : LoadClone(f)
    \/ \E f \in BagToSet(calls) : Return(f)
    \/ \E order \in Orderings : LoadAny(order)
    \/ \E order \in Orderings, val \in BagToSet(ElemPool) \cup {0} : StoreAny(val, order)
    \/ \E order \in Orderings, val \in BagToSet(ElemPool) : ~nullable /\ swap(val, order)
    \/ \E current \in BagToSet(ElemPool), new \in BagToSet(ElemPool), o \in CasOrders :
          ~nullable /\ compare_exchange(current, new, o[1], o[2])
    \/ \E current \in BagToSet(ElemPool), new \in BagToSet(ElemPool), o \in CasOrders, spurious \in BOOLEAN :
          ~nullable /\ compare_exchange_weak(current, new, o[1], o[2], spurious)
    \/ \E order \in Orderings, val \in OptValues : opt_swap(val, order)
    \/ \E current \in OptValues, new \in OptValues, o \in CasOrders :
          opt_compare_exchange(current, new, o[1], o[2])
    \/ \E current \in OptValues, new \in OptValues, o \in CasOrders, spurious \in BOOLEAN :
          opt_compare_exchange_weak(current, new, o[1], o[2], spurious)
    \/ \E o \in CasOrders : opt_fetch_update(o[1], o[2])
    \/ \E f \in BagToSet(calls), spurious \in BOOLEAN :
          \E r \in OptFnResults(f.word) : OptFuApply(f, r, spurious)
    \/ is_none
    \/ DropSlot

\* Slots of every variant: with and without tags, nullable or not.
SpecOpt == (Init \/ InitOpt) /\ [][NextOpt]_vars

\* ---------------------------------------------------------------------------
\* The tag codec on its own, as tests::tag uses it: a word and a tag are
\* composed for a type of some alignment, and the result is decomposed.
CodecAligns == {1, 2, 4, 8, 16}
CodecWords == {d \in 0..(WordMod - 1) : d % 4 = 0}
CodecTags == (0..MaxTag) \cup {WordMod - 1}

InitCodec ==
    /\ Init
    /\ tag_feature
    /\ alignT = 4

CodecInput ==
    /\ probe.op = "none"
    /\ \E align \in CodecAligns, data \in CodecWords, t \in CodecTags :
          probe' = [op |-> "input", align |-> align, data |-> data, tag |-> t,
                    word |-> 0, out |-> <<0, 0>>]
    /\ UNCHANGED <<tag_feature, alignT, nullable, slot, stale, slot_alive, strong, status,
                   viol, owned, shared, calls>>

CodecCompose ==
    /\ probe.op = "input"
    /\ probe' = [probe EXCEPT !.op = "composed",
                              !.word = compose_tag(probe.align, probe.data, probe.tag)]
    /\ UNCHANGED <<tag_feature, alignT, nullable, slot, stale, slot_alive, strong, status,
                   viol, owned, shared, calls>>

CodecDecompose ==
    /\ probe.op = "composed"
    /\ probe' = [probe EXCEPT !.op = "decomposed",
                              !.out = decompose_tag(probe.align, probe.word)]
    /\ UNCHANGED <<tag_feature, alignT, nullable, slot, stale, slot_alive, strong, status,
                   viol, owned, shared, calls>>

\* Every alignment a type can have in a word of WordBits bits.
MaskAligns == {Pow2(k) : k \in 0..(WordBits - 1)}

\* low_bits::<T>() for a type of some alignment, as tests::low_bits_of_arc
\* calls it.
CodecLowBits ==
    /\ probe.op = "none"
    /\ \E align \in MaskAligns :
          probe' = [op |-> "low_bits", align |-> align, mask |-> low_bits(align)]
    /\ UNCHANGED <<tag_feature, alignT, nullable, slot, stale, slot_alive, strong, status,
                   viol, owned, shared, calls>>

NextCodec == CodecInput \/ CodecCompose \/ CodecDecompose \/ CodecLowBits

SpecCodec == InitCodec /\ [][NextCodec]_vars

\* ---------------------------------------------------------------------------
\* Handles on their own, for pointees of every alignment up to 16: built from
\* shared references, tagged, cloned, and turned back.
HandleAligns == {1, 2, 4, 8, 16}

InitHandle ==
    /\ tag_feature = TRUE
    /\ alignT \in HandleAligns
    /\ slot = Addr(1)
    /\ stale = {slot}
    /\ slot_alive = TRUE
    /\ strong = [a \in Allocs |-> IF a = 1 THEN 1 ELSE 0]
    /\ status = [a \in Allocs |-> IF a = 1 THEN "live" ELSE "unused"]
    /\ viol = {}
    /\ owned = EmptyBag
    /\ shared = EmptyBag
    /\ calls = EmptyBag
    /\ nullable = FALSE
    /\ probe = NoProbe

\* Debug::fmt(&h): an Arc is made of the handle's pointer with Arc::from_raw,
\* the pointee is formatted through it, and that Arc is dropped on return.
fmt(h) ==
    /\ Running /\ tag_feature
    /\ BagIn(h, owned)
    /\ ArcDropCount(AllocAt(as_raw(h)))
    /\ UNCHANGED <<fixed, slot, stale, slot_alive, owned, shared, calls>>

\* h.tag() and h.as_raw() on a handle that is held: the caller keeps what the
\* accessor returned, the handle is borrowed and stays.
HandleTag(h) ==
    /\ Running /\ tag_feature
    /\ probe.op \in {"none", "read"}
    /\ BagIn(h, owned)
    /\ probe' = [op |-> "read", fn |-> "tag", word |-> h, out |-> tag(h)]
    /\ UNCHANGED <<tag_feature, alignT, nullable, slot, stale, slot_alive, strong, status,
                   viol, owned, shared, calls>>

HandleAsRaw(h) ==
    /\ Running /\ tag_feature
    /\ probe.op \in {"none", "read"}
    /\ BagIn(h, owned)
    /\ probe' = [op |-> "read", fn |-> "as_raw", word |-> h, out |-> as_raw(h)]
    /\ UNCHANGED <<tag_feature, alignT, nullable, slot, stale, slot_alive, strong, status,
                   viol, owned, shared, calls>>

\* h.into_usize(): the handle is consumed and its word is held as a usize.
HandleIntoUsize(h) ==
    /\ Running /\ tag_feature
    /\ probe.op \in {"none", "handle"}
    /\ Movable(h)
    /\ owned' = owned (-) Bag1(h)
    /\ probe' = [op |-> "word", from |-> h, word |-> into_usize(h), out |-> <<"None", 0>>]
    /\ UNCHANGED <<tag_feature, alignT, nullable, slot, stale, slot_alive, strong, status,
                   viol, shared, calls>>

\* The usize 0 is held.
ZeroUsize ==
    /\ Running /\ tag_feature
    /\ probe.op \in {"none", "handle"}
    /\ probe' = [op |-> "word", from |-> 0, word |-> 0, out |-> <<"None", 0>>]
    /\ UNCHANGED <<tag_feature, alignT, nullable, slot, stale, slot_alive, strong, status,
                   viol, owned, shared, calls>>

\* TaggedArc::from_usize(word) on the usize held: Some handle, or None.
HandleFromUsize ==
    /\ Running /\ tag_feature
    /\ probe.op = "word"
    /\ LET r == from_usize(probe.word)
       IN  /\ probe' = [probe EXCEPT !.op = "handle", !.out = r]
           /\ owned' = IF r[1] = "Some" THEN owned (+) Bag1(r[2]) ELSE owned
    /\ UNCHANGED <<tag_feature, alignT, nullable, slot, stale, slot_alive, strong, status,
                   viol, shared, calls>>

\* TaggedArc::into_raw(h): the handle is consumed and what as_raw gives for
\* it is held as a raw pointer.
into_raw(h) ==
    /\ Running /\ tag_feature
    /\ probe.op \in {"none", "made"}
    /\ Movable(h)
    /\ owned' = owned (-) Bag1(h)
    /\ probe' = [op |-> "raw", from |-> h, word |-> as_raw(h), out |-> <<"None", 0>>]
    /\ UNCHANGED <<tag_feature, alignT, nullable, slot, stale, slot_alive, strong, status,
                   viol, shared, calls>>

\* The null pointer is held.
NullRaw ==
    /\ Running /\ tag_feature
    /\ probe.op \in {"none", "made"}
    /\ probe' = [op |-> "raw", from |-> 0, word |-> 0, out |-> <<"None", 0>>]
    /\ UNCHANGED <<tag_feature, alignT, nullable, slot, stale, slot_alive, strong, status,
                   viol, owned, shared, calls>>

\* TaggedArc::from_raw(raw) on the pointer held: from_usize of its address.
from_raw ==
    /\ Running /\ tag_feature
    /\ probe.op = "raw"
    /\ LET r == from_usize(probe.word)
       IN  /\ probe' = [probe EXCEPT !.op = "made", !.out = r]
           /\ owned' = IF r[1] = "Some" THEN owned (+) Bag1(r[2]) ELSE owned
    /\ UNCHANGED <<tag_feature, alignT, nullable, slot, stale, slot_alive, strong, status,
                   viol, shared, calls>>

NextHandle ==
    \/ ArcNew
    \/ \E h \in BagToSet(owned) : HandleIntoUsize(h)
    \/ ZeroUsize
    \/ HandleFromUsize
    \/ \E h \in BagToSet(owned) : into_raw(h)
    \/ NullRaw
    \/ from_raw
    \/ \E p \in BagToSet(shared) : ArcDrop(p)
    \/ \E p \in BagToSet(shared) : from_arc(p)
    \/ \E p \in BagToSet(shared), t \in TagInputs : compose(p, t)
    \/ \E h \in BagToSet(owned) : into_arc(h)
    \/ \E h \in BagToSet(owned) : decompose(h)
    \/ \E h \in BagToSet(owned) : TaggedArcDrop(h)
    \/ \E h \in BagToSet(owned), t \in TagInputs : with_tag(h, t)
    \/ \E h \in BagToSet(owned) : clone(h)
    \/ \E h \in BagToSet(owned) : fmt(h)
    \/ \E h \in BagToSet(owned) : HandleTag(h)
    \/ \E h \in BagToSet(owned) : HandleAsRaw(h)
    \/ \E f \in BagToSet(calls) : CloneDrop(f)
    \/ \E f \in BagToSet(calls) : Return(f)

SpecHandle == InitHandle /\ [][NextHandle]_vars

\* ---------------------------------------------------------------------------
\* Visibility of a pointee across threads.  Thread 1 builds a value (the write
\* to the pointee) and installs it in the slot with store, swap or a successful
\* compare_exchange; thread 2 calls load and reads the pointee of what it got.
\* Memory is modelled by views: a thread is sure to see the pointee's contents
\* only once the write is in its view; an atomic write with a releasing
\* ordering attaches the writer's view to the word, and an atomic read with an
\* acquiring ordering takes over the view attached to the word it reads.  A
\* plain read takes over nothing.
Releases(order) == order \in {"Release", "AcqRel", "SeqCst"}
Acquires(order) == order \in {"Acquire", "AcqRel", "SeqCst"}

\* The ways to install a value and the orderings each accepts.
Installs ==
    {<<"store", o>> : o \in {"Relaxed", "Release", "SeqCst"}}
    \cup {<<"swap", o>> : o \in Orderings}
    \cup {<<"compare_exchange", o>> : o \in Orderings}

VisStart ==
    /\ probe.op = "none"
    /\ \E i \in Installs, lo \in {order \in Orderings : ~LoadPanics(order)} :
          probe' = [op |-> "vis", install |-> i[1], so |-> i[2], lo |-> lo,
                    pc1 |-> "start", pc2 |-> "start",
                    written |-> FALSE,     \* the pointee's contents are in memory
                    attached |-> FALSE,    \* the view attached to the slot's word has the write
                    tmp |-> 0,             \* the copy load makes of the slot's word
                    tmp_attached |-> FALSE,\* the view attached to the copy has the write
                    view2 |-> FALSE,       \* thread 2's view has the write
                    word |-> 0,            \* the word load returned
                    seen |-> "nothing"]
    /\ UNCHANGED <<tag_feature, alignT, nullable, slot, stale, slot_alive, strong, status,
                   viol, owned, shared, calls>>

\* Thread 1: Arc::new(value) writes the pointee of a fresh allocation.
VisNew ==
    /\ probe.op = "vis" /\ probe.pc1 = "start"
    /\ strong' = [strong EXCEPT ![2] = 1]
    /\ status' = [status EXCEPT ![2] = "live"]
    /\ probe' = [probe EXCEPT !.pc1 = "built", !.written = TRUE]
    /\ UNCHANGED <<tag_feature, alignT, nullable, slot, stale, slot_alive, viol, owned, shared, calls>>

\* Thread 1: store / swap / compare_exchange: an atomic write of the slot's
\* word through transmute::<&NonNull<T>, &AtomicUsize>(&self.data).
VisInstall ==
    /\ probe.op = "vis" /\ probe.pc1 = "built"
    /\ slot' = Addr(2)
    /\ stale' \in Keep(slot')
    /\ probe' = [probe EXCEPT !.pc1 = "installed", !.attached = Releases(probe.so)]
    /\ UNCHANGED <<tag_feature, alignT, nullable, slot_alive, strong, status,
                   viol, owned, shared, calls>>

\* Thread 2, load: transmute_copy::<NonNull<T>, AtomicUsize>(&self.data), a
\* plain read of the slot's word into a temporary of thread 2's own; the view
\* attached to the temporary is thread 2's.
VisCopy ==
    /\ probe.op = "vis" /\ probe.pc2 = "start"
    /\ probe' = [probe EXCEPT !.pc2 = "copied", !.tmp = slot, !.tmp_attached = probe.view2]
    /\ UNCHANGED <<tag_feature, alignT, nullable, slot, stale, slot_alive, strong, status,
                   viol, owned, shared, calls>>

\* Thread 2, load: .load(order) on the temporary, an atomic read that takes
\* over the view attached to the temporary if the ordering acquires.
VisLoad ==
    /\ probe.op = "vis" /\ probe.pc2 = "copied"
    /\ probe' = [probe EXCEPT !.pc2 = "loaded", !.word = probe.tmp,
                              !.view2 = probe.view2 \/ (Acquires(probe.lo) /\ probe.tmp_attached)]
    /\ UNCHANGED <<tag_feature, alignT, nullable, slot, stale, slot_alive, strong, status,
                   viol, owned, shared, calls>>

\* Thread 2 reads the pointee of the value load returned: the contents
\* written if the write is in its view, otherwise either those or what the
\* memory held before.
VisRead ==
    /\ probe.op = "vis" /\ probe.pc2 = "loaded"
    /\ \E s \in {"written", "stale"} :
          /\ s = "stale" => (probe.word = Addr(2) /\ ~probe.view2)
          /\ s = "written" => (probe.word = Addr(1) \/ probe.written)
          /\ probe' = [probe EXCEPT !.pc2 = "read", !.seen = s]
    /\ UNCHANGED <<tag_feature, alignT, nullable, slot, stale, slot_alive, strong, status,
                   viol, owned, shared, calls>>

NextVis == VisStart \/ VisNew \/ VisInstall \/ VisCopy \/ VisLoad \/ VisRead

SpecVis == Init /\ [][NextVis]_vars

\* The scenario of two threads: the slot holds the value 10 with tag 0
\* (allocation 1), thread 1 owns a reference to the same allocation and a new
\* value 20 (allocation 2) and calls compare_exchange_weak(current, new) once,
\* thread 2 calls load once; the orderings are ones the calls accept.
Init14 ==
    /\ tag_feature \in BOOLEAN
    /\ alignT \in AlignOfT
    /\ slot = Addr(1)
    /\ stale = {slot}
    /\ slot_alive = TRUE
    /\ strong = [a \in Allocs |-> IF a = 1 THEN 2 ELSE IF a = 2 THEN 1 ELSE 0]
    /\ status = [a \in Allocs |-> IF a \in {1, 2} THEN "live" ELSE "unused"]
    /\ viol = {}
    /\ owned = (IF tag_feature THEN Bag1(Addr(1)) (+) Bag1(Addr(2)) ELSE EmptyBag)
    /\ shared = (IF tag_feature THEN EmptyBag ELSE Bag1(Addr(1)) (+) Bag1(Addr(2)))
    /\ calls = EmptyBag
    /\ nullable = FALSE
    /\ probe = NoProbe

\* Thread 1 has not called yet: it still owns both arguments.
T1Ready == slot = Addr(1) /\ CasArgs(Addr(1), Addr(2))

\* Thread 2 has not called yet: no value has been handed to it.
T2Ready ==
    /\ \A f \in BagToSet(calls) : f.op # "load"
    /\ BagCardinality(ElemPool) + BagCardinality(calls) = (IF T1Ready THEN 2 ELSE 1)

Thread1(o, spurious) ==
    /\ T1Ready
    /\ ~CasPanics(o[1], o[2])
    /\ compare_exchange_weak(Addr(1), Addr(2), o[1], o[2], spurious)

Thread2(order) ==
    /\ T2Ready
    /\ ~LoadPanics(order)
    /\ load_call(order)

Next14 ==
    \/ \E o \in CasOrders, spurious \in BOOLEAN : Thread1(o, spurious)
    \/ \E order \in Orderings : Thread2(order)
    \/ \E f \in BagToSet(calls) : LoadClone(f)
    \/ \E f \in BagToSet(calls) : CloneDrop(f)
    \/ \E f \in BagToSet(calls) : Return(f)

Spec14 == Init14 /\ [][Next14]_vars

\* Threads that call fetch_update with a closure that always answers
\* Some(prev.with_tag(t)), on a T whose tags fit the mask of Arc<T>, and let
\* the values returned go out of scope; the orderings are ones load accepts.
\* A thread inside a call takes its
\* next step sooner or later, and a compare_exchange_weak does not fail
\* spuriously for ever.
InitLive == Init /\ tag_feature /\ alignT = 4

FuRetag(f, spurious) ==
    \E r \in FnResults(f.word) : r.from = "with_tag" /\ FuApply(f, r, spurious)

NextLive ==
    \/ \E o \in CasOrders : ~LoadPanics(o[2]) /\ fetch_update(o[1], o[2])
    \/ \E f \in BagToSet(calls) : LoadClone(f)
    \/ \E f \in BagToSet(calls) : CloneDrop(f)
    \/ \E f \in BagToSet(calls), spurious \in BOOLEAN : FuRetag(f, spurious)
    \/ \E f \in BagToSet(calls) : Return(f)
    \/ \E h \in BagToSet(owned) : TaggedArcDrop(h)

SpecLive ==
    /\ InitLive
    /\ [][NextLive]_vars
    /\ WF_vars(\E f \in BagToSet(calls) : LoadClone(f))
    /\ WF_vars(\E f \in BagToSet(calls) : CloneDrop(f))
    /\ WF_vars(\E f \in BagToSet(calls) : FuRetag(f, FALSE))
    /\ WF_vars(\E f \in BagToSet(calls) : Return(f))

\* ---------------------------------------------------------- construction
\* The program before it has a slot: it makes shared references and handles,
\* builds the AtomicArc from one of them, and loads from it.  Until then the
\* word 0, which a slot of this kind never holds, stands for the slot that
\* does not exist yet; probe keeps which constructor ran and on what.
InitNew ==
    /\ tag_feature \in BOOLEAN
    /\ alignT \in AlignOfT
    /\ slot = 0
    /\ stale = {slot}
    /\ slot_alive = TRUE
    /\ strong = [a \in Allocs |-> 0]
    /\ status = [a \in Allocs |-> "unused"]
    /\ viol = {}
    /\ owned = EmptyBag
    /\ shared = EmptyBag
    /\ calls = EmptyBag
    /\ nullable = FALSE
    /\ probe = NoProbe

\* AtomicArc::from_arc(val): Arc::into_raw(val) is the slot's word.
AtomicArc_from_arc(p) ==
    /\ Running
    /\ slot = 0
    /\ BagIn(p, shared)
    /\ shared' = shared (-) Bag1(p)
    /\ slot' = p
    /\ stale' = {slot'}
    /\ probe' = [op |-> "built", by |-> "from_arc", word |-> p]
    /\ UNCHANGED <<tag_feature, alignT, nullable, slot_alive, strong, status, viol,
                   owned, calls>>

\* AtomicArc::new(val) for a val that is an Arc: val.into() and from_arc.
AtomicArc_new(p) ==
    /\ Running
    /\ slot = 0
    /\ BagIn(p, shared)
    /\ shared' = shared (-) Bag1(p)
    /\ slot' = p
    /\ stale' = {slot'}
    /\ probe' = [op |-> "built", by |-> "new", word |-> p]
    /\ UNCHANGED <<tag_feature, alignT, nullable, slot_alive, strong, status, viol,
                   owned, calls>>

\* AtomicArc::from_tagged(tagged): the handle's word is the slot's word.
from_tagged(h) ==
    /\ Running /\ tag_feature
    /\ slot = 0
    /\ Movable(h)
    /\ owned' = owned (-) Bag1(h)
    /\ slot' = h
    /\ stale' = {slot'}
    /\ probe' = [op |-> "built", by |-> "from_tagged", word |-> h]
    /\ UNCHANGED <<tag_feature, alignT, nullable, slot_alive, strong, status, viol,
                   shared, calls>>

\* TaggedArc::into_usize(h), or Arc::into_raw(p) as usize without the feature:
\* the value is consumed and the caller is left with its word, a plain usize;
\* no count changes.
Elem_into_usize(val) ==
    /\ Running
    /\ CanGive(val)
    /\ SetElemPool(ElemPool (-) Bag1(val))
    /\ UNCHANGED <<fixed, slot, stale, slot_alive, strong, status, viol, calls>>

\* The words a caller passes to AtomicArc::from_usize: zero, the word of any
\* value there can be, whether the caller holds it, gave it up or never had
\* it, and a word that is the word of no value.
UsizeInputs ==
    {0, 7} \cup (IF tag_feature
                 THEN {compose_tag(alignT, Addr(a), t) : a \in Allocs, t \in TagInputs}
                 ELSE {Addr(a) : a \in Allocs})

\* AtomicArc::from_usize(val): None for zero, otherwise a slot whose word is
\* val.  The argument is a plain usize: nothing is taken from the caller and
\* no count is touched.
AtomicArc_from_usize(val) ==
    /\ Running
    /\ slot = 0
    /\ IF val = 0
       THEN /\ probe' = [op |-> "no_slot", by |-> "from_usize", word |-> 0]
            /\ UNCHANGED <<slot, stale>>
       ELSE /\ slot' = val
            /\ stale' = {slot'}
            /\ probe' = [op |-> "built", by |-> "from_usize", word |-> val]
    /\ UNCHANGED <<tag_feature, alignT, nullable, slot_alive, strong, status, viol,
                   owned, shared, calls>>

NextNew ==
    \/ ArcNew
    \/ \E p \in BagToSet(shared) : ArcClone(p)
    \/ \E p \in BagToSet(shared) : ArcDrop(p)
    \/ \E p \in BagToSet(shared) : from_arc(p)
    \/ \E p \in BagToSet(shared), t \in TagInputs : compose(p, t)
    \/ \E h \in BagToSet(owned) : TaggedArcDrop(h)
    \/ \E p \in BagToSet(shared) : AtomicArc_new(p)
    \/ \E p \in BagToSet(shared) : AtomicArc_from_arc(p)
    \/ \E h \in BagToSet(owned) : from_tagged(h)
    \/ \E val \in BagToSet(ElemPool) : Elem_into_usize(val)
    \/ \E val \in UsizeInputs : AtomicArc_from_usize(val)
    \/ \E order \in Orderings : slot # 0 /\ load(order)
    \/ \E f \in BagToSet(calls) : LoadClone(f)
    \/ \E f \in BagToSet(calls) : CloneDrop(f)
    \/ \E f \in BagToSet(calls) : Return(f)

SpecNew == InitNew /\ [][NextNew]_vars

\* ------------------------------------------------------------- swap only
\* Threads that do nothing but swap: the slot holds a word, the callers hold
\* one or two values between them, and every strong count is the number of
\* references there are.  probe keeps the words the run started with.
SwapWords ==
    IF tag_feature
    THEN {compose_tag(alignT, Addr(a), t) : a \in Allocs, t \in TagInputs}
    ELSE {Addr(a) : a \in Allocs}

SwapPools ==
    {Bag1(x) : x \in SwapWords} \cup {Bag1(x) (+) Bag1(y) : x \in SwapWords, y \in SwapWords}

InitSwap ==
    /\ tag_feature \in BOOLEAN
    /\ alignT \in AlignOfT
    /\ nullable \in BOOLEAN
    /\ \E x \in SwapWords \cup (IF nullable THEN {0} ELSE {}), b \in SwapPools :
          /\ slot = IF nullable THEN opt_into_usize(x) ELSE into_usize(x)
          /\ owned = IF tag_feature THEN b ELSE EmptyBag
          /\ shared = IF tag_feature THEN EmptyBag ELSE b
          /\ strong = [a \in Allocs |->
                          BagCardinality([w \in {v \in BagToSet(b) : v - (v % alignT) = Addr(a)} |-> b[w]])
                          + (IF x # 0 /\ x - (x % alignT) = Addr(a) THEN 1 ELSE 0)]
          /\ probe = [op |-> "swap", slot0 |-> x, pool0 |-> b]
    /\ stale = {slot}
    /\ slot_alive = TRUE
    /\ status = [a \in Allocs |-> IF strong[a] > 0 THEN "live" ELSE "unused"]
    /\ viol = {}
    /\ calls = EmptyBag

NextSwap ==
    \/ \E val \in BagToSet(ElemPool), order \in Orderings : ~nullable /\ swap(val, order)
    \/ \E val \in OptValues, order \in Orderings : opt_swap(val, order)
    \/ \E f \in BagToSet(calls) : Return(f)

SpecSwap == InitSwap /\ [][NextSwap]_vars

\* ------------------------------------------------------- racing callers
\* As many threads as can be inside a call at once race to replace the word w
\* of the slot: each holds a value with the word w, to pass as current, and a
\* new value of another allocation, and calls the strong compare_exchange
\* once with orderings it accepts.  Nothing else writes the slot.  probe keeps
\* w and the new values.
Racers == MaxCalls

RaceWords(a) ==
    IF tag_feature
    THEN {compose_tag(alignT, Addr(a), t) : t \in TagInputs}
    ELSE {Addr(a)}

RECURSIVE BagOfFn(_, _)
BagOfFn(ns, k) == IF k = 0 THEN EmptyBag ELSE Bag1(ns[k]) (+) BagOfFn(ns, k - 1)

InitRace ==
    /\ tag_feature \in BOOLEAN
    /\ alignT \in AlignOfT
    /\ nullable = FALSE
    /\ slot \in RaceWords(1)
    /\ stale = {slot}
    /\ slot_alive = TRUE
    /\ strong = [a \in Allocs |-> IF a = 1 THEN 1 + Racers ELSE IF a = 2 THEN Racers ELSE 0]
    /\ status = [a \in Allocs |-> IF a \in {1, 2} THEN "live" ELSE "unused"]
    /\ viol = {}
    /\ \E ns \in [1..Racers -> RaceWords(2)] :
          /\ probe = [op |-> "race", w |-> slot, news |-> BagOfFn(ns, Racers)]
          /\ LET b == [x \in {slot} |-> Racers] (+) BagOfFn(ns, Racers)
             IN  /\ owned = IF tag_feature THEN b ELSE EmptyBag
                 /\ shared = IF tag_feature THEN EmptyBag ELSE b
    /\ calls = EmptyBag

\* The threads that have called: every call takes two values from the
\* callers and hands one back.
RaceStarted == 2 * Racers - (BagCardinality(ElemPool) + BagCardinality(calls))

\* The values with the word new that are still their thread's own new value:
\* the values in the callers' hands, less those that calls which failed have
\* handed back, which carry the slot's word.
RaceUnspent(new) ==
    CopiesIn(new, ElemPool)
        - (IF new = slot /\ RaceStarted > 0
           THEN (RaceStarted - 1)
                   - BagCardinality([f \in {g \in BagToSet(calls) : g.kind = "Err"} |-> calls[f]])
           ELSE 0)

\* A thread that has not called yet calls with its own new value.
RaceThread(new, o) ==
    /\ probe.op = "race"
    /\ RaceStarted < Racers
    /\ BagIn(new, probe.news)
    /\ RaceUnspent(new) > 0
    /\ ~CasPanics(o[1], o[2])
    /\ compare_exchange(probe.w, new, o[1], o[2])

NextRace ==
    \/ \E new \in BagToSet(ElemPool), o \in CasOrders : RaceThread(new, o)
    \/ \E f \in BagToSet(calls) : Return(f)

SpecRace == InitRace /\ [][NextRace]_vars

\* ------------------------------------------------------ the first codec
\* The tag codec of the first drafts (src/atomic.rs and src/pointer.rs), for
\* the usize of UsizeBits bits they are built for.  low_bits shifts 1 by the
\* alignment itself.  A shift by the width of usize or more is an overflow: it
\* panics in a build with overflow checks, and without them the shift amount
\* wraps.
UsizeBits == 64

\* The alignments of the drafts' types: the masks of the alignments 32 and
\* above that do not overflow are numbers too large to compute with here.
DraftAligns == {1, 2, 4, 8, 16, UsizeBits, 2 * UsizeBits}

draft_low_bits(align, overflow_checks) ==
    IF align >= UsizeBits
    THEN IF overflow_checks THEN <<"Panic", 0>> ELSE <<"Val", Pow2(align % UsizeBits) - 1>>
    ELSE <<"Val", Pow2(align) - 1>>

\* !mask in a usize: data & !mask is data without its bits under the mask.
draft_clear(data, mask) == data - BitAnd(data, mask)

draft_compose_tag(align, data, t, overflow_checks) ==
    LET mask == draft_low_bits(align, overflow_checks)
    IN  IF mask[1] = "Panic" THEN <<"Panic", 0>>
        ELSE <<"Val", BitOr(draft_clear(data, mask[2]), BitAnd(t, mask[2]))>>

draft_decompose_tag(align, data, overflow_checks) ==
    LET mask == draft_low_bits(align, overflow_checks)
    IN  IF mask[1] = "Panic" THEN <<"Panic", <<0, 0>>>>
        ELSE <<"Val", <<draft_clear(data, mask[2]), BitAnd(data, mask[2])>>>>

\* tests::tag of the drafts, for a type of any alignment, any pointer word
\* aligned for it and any tag below the alignment.
DraftInput ==
    /\ probe.op = "none"
    /\ \E align \in DraftAligns, overflow_checks \in BOOLEAN :
       \E data \in {d \in 0..(WordMod - 1) : d % align = 0}, t \in 0..(align - 1) :
          probe' = [op |-> "draft_input", align |-> align, checks |-> overflow_checks,
                    data |-> data, tag |-> t, word |-> <<"Val", 0>>, out |-> <<"Val", <<0, 0>>>>]
    /\ UNCHANGED <<tag_feature, alignT, nullable, slot, stale, slot_alive, strong, status,
                   viol, owned, shared, calls>>

DraftCompose ==
    /\ probe.op = "draft_input"
    /\ probe' = [probe EXCEPT !.op = "draft_composed",
                              !.word = draft_compose_tag(probe.align, probe.data, probe.tag, probe.checks)]
    /\ UNCHANGED <<tag_feature, alignT, nullable, slot, stale, slot_alive, strong, status,
                   viol, owned, shared, calls>>

DraftDecompose ==
    /\ probe.op = "draft_composed"
    /\ probe.word[1] = "Val"
    /\ probe' = [probe EXCEPT !.op = "draft_decomposed",
                              !.out = draft_decompose_tag(probe.align, probe.word[2], probe.checks)]
    /\ UNCHANGED <<tag_feature, alignT, nullable, slot, stale, slot_alive, strong, status,
                   viol, owned, shared, calls>>

\* tests::low_bits_of_arc of the drafts, for a type of any alignment.
DraftLowBits ==
    /\ probe.op = "none"
    /\ \E align \in DraftAligns, overflow_checks \in BOOLEAN :
          probe' = [op |-> "draft_low_bits", align |-> align, checks |-> overflow_checks,
                    mask |-> draft_low_bits(align, overflow_checks)]
    /\ UNCHANGED <<tag_feature, alignT, nullable, slot, stale, slot_alive, strong, status,
                   viol, owned, shared, calls>>

NextDraft == DraftInput \/ DraftCompose \/ DraftDecompose \/ DraftLowBits

SpecDraft == InitCodec /\ [][NextDraft]_vars

\* ------------------------------------------------------------ properties
\* The frame of the call that the step starts.
Started == CHOOSE f \in BagToSet(calls') : CopiesIn(f, calls') > CopiesIn(f, calls)

\* The values of a bag of words that refer to the allocation a.
RefsIn(b, a) == BagCardinality([w \in {v \in BagToSet(b) : Pointee(v) = a} |-> b[w]])

\* The values that calls have returned and the callers have not yet received.
Returned(a) ==
    BagCardinality([f \in {g \in BagToSet(calls) :
                              /\ g.pc = "done"
                              /\ g.kind \in {"Val", "Ok", "Err"}
                              /\ Pointee(g.word) = a} |-> calls[f]])

\* No call is part-way through its steps.
Quiescent == \A f \in BagToSet(calls) : f.pc = "done"

\* A step of either compare-exchange with orderings the atomic accepts.
CasStep(current, new, o, spurious) ==
    /\ \/ compare_exchange(current, new, o[1], o[2])
       \/ compare_exchange_weak(current, new, o[1], o[2], spurious)
    /\ ~CasPanics(o[1], o[2])

\* C1: for every allocation, whenever no call is part-way through, the strong
\* count equals the number of live TaggedArc values referring to it, plus the
\* number of live Arc values referring to it, plus one if the slot refers to
\* it.  The code breaks this: load, clone and with_tag make a value without
\* keeping an increment, and a TaggedArc going out of scope keeps its count.
C1_RefCountConservation ==
    (Alive /\ Quiescent) =>
        \A a \in Allocs :
            strong[a] = RefsIn(owned, a) + RefsIn(shared, a) + Returned(a)
                        + (IF Pointee(slot) = a THEN 1 ELSE 0)

\* C2: a strong compare_exchange succeeds if and only if the slot's whole word
\* equals the word of current; on success the slot holds the word of new and
\* the Ok value carries the word of current.
C2_CasWordEquality ==
    [][\A current \in BagToSet(ElemPool), new \in BagToSet(ElemPool), o \in CasOrders :
          (compare_exchange(current, new, o[1], o[2]) /\ ~CasPanics(o[1], o[2])) =>
              /\ Started.op = "compare_exchange"
              /\ (Started.kind = "Ok") <=> (slot = into_usize(current))
              /\ (Started.kind = "Ok") =>
                    /\ slot' = into_usize(new)
                    /\ Started.word = into_usize(current)]_vars

\* A compare_exchange has succeeded with a new word that differs from current.
C2_Witness ==
    \E f \in BagToSet(calls) :
        /\ f.op = "compare_exchange" /\ f.kind = "Ok"
        /\ f.word = f.arg /\ slot # f.arg

\* C3: once the slot and every value have gone out of scope, no allocation is
\* left live, and no memory error has happened on the way.  The code breaks
\* this: neither AtomicArc nor TaggedArc releases its reference.
C3_NoLeakNoDoubleFree ==
    /\ viol = {}
    /\ (~slot_alive /\ owned = EmptyBag /\ shared = EmptyBag /\ calls = EmptyBag) =>
          \A a \in Allocs : status[a] # "live"

\* C4: while the slot exists, the allocation its word refers to has not been
\* deallocated.  The code breaks this: the value load returns shares the
\* slot's reference, and releasing it frees the slot's pointee.
C4_SlotPointeeAlive ==
    slot_alive => (Pointee(slot) \in Allocs /\ status[Pointee(slot)] = "live")

\* C5: when load has returned a value, the call has added exactly one to the
\* strong count of the allocation it read.  The code breaks this: the
\* increment of Arc::clone is taken back when the local Arc is dropped.
C5_LoadAddsOne ==
    \A f \in BagToSet(calls) :
        (f.op = "load" /\ f.pc = "done" /\ f.kind = "Val") => f.delta = 1

\* C6: store sets the slot's word to the word of new, leaves the strong count
\* of every other allocation alone and takes one from the strong count of the
\* allocation the slot referred to.  The code breaks this: the previous word
\* is overwritten without being released.
C6_StoreReleasesPrevious ==
    [][\A val \in BagToSet(ElemPool), order \in Orderings :
          (store(val, order) /\ ~StorePanics(order)) =>
              /\ slot' = into_usize(val)
              /\ strong' = [strong EXCEPT ![Pointee(slot)] = @ - 1]]_vars

\* C7: swap sets the slot's word to the word of new and returns a value with
\* the word the slot held; no strong count changes and no allocation is
\* freed; every ordering is accepted.
C7_SwapMovesOwnership ==
    [][\A val \in BagToSet(ElemPool), order \in Orderings :
          swap(val, order) =>
              /\ slot' = into_usize(val)
              /\ Started.op = "swap" /\ Started.kind = "Val" /\ Started.word = slot
              /\ strong' = strong /\ status' = status /\ viol' = viol]_vars

\* A swap has returned the old word and left the new one in the slot.
C7_Witness ==
    \E f \in BagToSet(calls) :
        /\ f.op = "swap" /\ f.pc = "done" /\ f.kind = "Val"
        /\ slot = f.arg /\ f.word # f.arg

\* C8: when compare_exchange or compare_exchange_weak does not succeed, the
\* slot's word is unchanged, the call returns Err with the word the slot
\* holds, and the call does not panic.
C8_FailedCasLeavesSlot ==
    [][(/\ InFlight' > InFlight
        /\ Started.op \in {"compare_exchange", "compare_exchange_weak"}
        /\ Started.kind # "Ok") =>
       \A current \in {Started.arg}, new \in BagToSet(ElemPool),
          o \in CasOrders, spurious \in BOOLEAN :
          CasStep(current, new, o, spurious) =>
              /\ slot' = slot
              /\ Started.kind = "Err"
              /\ Started.word = slot]_vars

\* A compare-exchange has failed on a mismatch and returned the slot's word.
C8_Witness ==
    \E f \in BagToSet(calls) :
        /\ f.op \in {"compare_exchange", "compare_exchange_weak"}
        /\ f.kind = "Err" /\ f.word # f.arg /\ slot = f.word

\* C9: a compare-exchange that fails releases the reference of new, and the
\* Err value is a reference of its own: the strong count of the allocation of
\* new goes down by one and that of the slot's allocation goes up by one
\* (stated where the allocation is not also that of another argument).  The
\* code breaks this: no strong count changes.
C9_FailedCasReferences ==
    [][\A current \in BagToSet(ElemPool), new \in BagToSet(ElemPool),
          o \in CasOrders, spurious \in BOOLEAN :
          (CasStep(current, new, o, spurious) /\ Started.kind = "Err") =>
              LET n == Pointee(new)
                  c == Pointee(current)
                  s == Pointee(slot)
              IN  /\ (n \notin {c, s}) => strong'[n] = strong[n] - 1
                  /\ (s \notin {c, n}) => strong'[s] = strong[s] + 1]_vars

\* C10: with the slot holding (p, a) and current being (p, b) with a # b,
\* compare_exchange fails, returns a value with the word (p, a) and leaves
\* the slot unchanged.
C10_TagIndependence ==
    [][\A current \in BagToSet(ElemPool), new \in BagToSet(ElemPool), o \in CasOrders :
          (/\ compare_exchange(current, new, o[1], o[2])
           /\ ~CasPanics(o[1], o[2])
           /\ tag_feature
           /\ as_raw(current) = as_raw(slot)
           /\ tag(current) # tag(slot)) =>
              /\ slot' = slot
              /\ Started.kind = "Err"
              /\ Started.word = slot]_vars

\* A compare_exchange whose current had the slot's pointer and another tag
\* has failed.
C10_Witness ==
    \E f \in BagToSet(calls) :
        /\ tag_feature
        /\ f.op = "compare_exchange" /\ f.kind = "Err"
        /\ as_raw(f.arg) = as_raw(f.word) /\ tag(f.arg) # tag(f.word)
        /\ slot = f.word

\* C11: compare_exchange_weak never succeeds when the slot's word differs from
\* the word of current; when it fails, spuriously or not, the slot is
\* unchanged and Err carries the slot's word; when it succeeds, and whenever
\* it does not fail spuriously, the slot, the value returned and the strong
\* counts are those of compare_exchange on the same arguments.
C11_WeakCasRefinesStrong ==
    [][\A current \in BagToSet(ElemPool), new \in BagToSet(ElemPool),
          o \in CasOrders, spurious \in BOOLEAN :
          (compare_exchange_weak(current, new, o[1], o[2], spurious) /\ ~CasPanics(o[1], o[2])) =>
              LET strongly == cas_word(slot, into_usize(current), into_usize(new))
              IN  /\ Started.op = "compare_exchange_weak"
                  /\ (Started.kind = "Ok") => (slot = into_usize(current))
                  /\ (Started.kind # "Ok") =>
                        (slot' = slot /\ Started.kind = "Err" /\ Started.word = slot)
                  /\ (Started.kind = "Ok" \/ ~spurious) =>
                        /\ Started.kind = strongly[1]
                        /\ Started.word = strongly[2]
                        /\ slot' = strongly[3]
                  /\ strong' = strong /\ status' = status]_vars

\* A compare_exchange_weak has failed although the slot held the word of
\* current.
C11_Witness ==
    \E f \in BagToSet(calls) :
        /\ f.op = "compare_exchange_weak" /\ f.kind = "Err"
        /\ f.word = f.arg /\ slot = f.arg

C12_Witness ==
    \E f \in BagToSet(calls) :
        /\ f.op = "fetch_update" /\ f.pc = "done" /\ f.kind = "Ok"
        /\ slot # f.word

C13_Witness ==
    \E f \in BagToSet(calls), g \in BagToSet(calls) :
        /\ f.op = "fetch_update" /\ f.pc = "done" /\ f.kind = "Ok"
        /\ g.op = "fetch_update" /\ g.pc = "apply" /\ g.word # slot

\* ---------------------------------------------------------------------------
\* The two-thread scenario.
LoadResults == {f \in BagToSet(calls) : f.op = "load" /\ f.pc = "done" /\ f.kind = "Val"}

\* Both threads have made their call and got its result back.
Finished14 == calls = EmptyBag /\ ~T1Ready /\ ~T2Ready

\* C14 (as stated): thread 2 observes (10,0) or (20,0), and after both threads
\* finish the slot holds (20,0).
C14_ScenarioAsStated ==
    /\ \A f \in LoadResults : f.word \in {Addr(1), Addr(2)}
    /\ Finished14 => slot = Addr(2)

\* C14 (amended): thread 2 observes (10,0) or (20,0), never another word; the
\* compare_exchange_weak either returns Ok((10,0)) and leaves (20,0) in the
\* slot, or fails spuriously, returns Err((10,0)) and leaves (10,0) there; no
\* later step of the scenario changes the slot, so after both threads finish
\* the slot holds (20,0) exactly when the compare-exchange returned Ok.
C14_Scenario ==
    /\ [](\A f \in LoadResults : f.word \in {Addr(1), Addr(2)})
    /\ [][(\E o \in CasOrders, spurious \in BOOLEAN : Thread1(o, spurious)) =>
            /\ Started.word = Addr(1)
            /\ \/ Started.kind = "Ok" /\ slot' = Addr(2)
               \/ Started.kind = "Err" /\ slot' = Addr(1)]_vars
    /\ [][~T1Ready => slot' = slot]_vars

\* Both threads finished, the exchange succeeded, and thread 2 had read the
\* slot before it: both of thread 1's and thread 2's results are (10,0).
C14_Witness ==
    /\ Finished14
    /\ slot = Addr(2)
    /\ CopiesIn(Addr(1), ElemPool) = 2


\* ---------------------------------------------------------------------------
\* C15: a load with ordering Release or AcqRel and a store with ordering
\* Acquire or AcqRel panic in every slot variant (tagged, untagged, nullable),
\* and the rejected call leaves the slot's word as it was.
C15_OrderingLegality ==
    [][/\ \A order \in {"Release", "AcqRel"} :
            LoadAny(order) => Started.kind = "Panic" /\ slot' = slot
       /\ \A order \in {"Acquire", "AcqRel"}, val \in BagToSet(ElemPool) \cup {0} :
            StoreAny(val, order) => Started.kind = "Panic" /\ slot' = slot]_vars

\* A rejected call has been made on a nullable slot that holds a value.
C15_Witness ==
    /\ nullable
    /\ slot # 0
    /\ \E f \in BagToSet(calls) : f.op \in {"load", "store"} /\ f.kind = "Panic"


\* ---------------------------------------------------------------------------
\* C16: when clone has returned, the new handle has the word of the original
\* (same pointer bits, same tag) and the call has added exactly one to the
\* strong count of the allocation.  The code breaks this: the increment of
\* Arc::clone is taken back when the local Arc made by Arc::from_raw is
\* dropped at the end of clone.
C16_CloneAddsOne ==
    \A f \in BagToSet(calls) :
        (f.op = "clone" /\ f.pc = "done" /\ f.kind = "Val") =>
            (f.word = f.arg /\ f.delta = 1)

\* C17: a handle that goes out of scope takes exactly one from the strong count
\* of its allocation, and the allocation is freed when the count reaches
\* zero.  The code breaks this: TaggedArc has no Drop implementation, so the
\* count stays as it was.
C17_DropReleasesOne ==
    [][\A h \in BagToSet(owned) :
          TaggedArcDrop(h) =>
             /\ strong' = [strong EXCEPT ![Pointee(h)] = @ - 1]
             /\ status' = [status EXCEPT ![Pointee(h)] =
                              IF strong[Pointee(h)] = 1 THEN "freed" ELSE @]]_vars


\* C18: from_arc turns a shared reference into a handle with the same pointer
\* and into_arc turns a handle, tagged or not, back into a shared reference to
\* the allocation the handle's pointer bits name; neither changes a strong
\* count.  The code breaks this for a pointee aligned to more than a word:
\* with_tag writes the tag under the mask of T, into_arc clears only the mask
\* of Arc<T>, and a tag bit above it stays in the pointer.
C18_ArcRoundTrip ==
    [][/\ \A p \in BagToSet(shared) :
            from_arc(p) => (owned' = owned (+) Bag1(p) /\ strong' = strong)
       /\ \A h \in BagToSet(owned) :
            into_arc(h) =>
               /\ shared' = shared (+) Bag1(h - (h % alignT))
               /\ strong' = strong]_vars


\* C19: h.with_tag(t) yields a handle with the pointer bits of h and the tag
\* t mod alignment, whatever tag h carried: tagging the result again gives the
\* same word as tagging h; no strong count changes and nothing is freed.
C19_WithTag ==
    [][\A h \in BagToSet(owned), t \in TagInputs :
          with_tag(h, t) =>
             LET w == (h - (h % alignT)) + (t % alignT)
             IN  /\ owned' = owned (+) Bag1(w)
                 /\ \A t2 \in TagInputs :
                       compose_tag(alignT, w, t2) = compose_tag(alignT, h, t2)
                 /\ strong' = strong
                 /\ status' = status]_vars

\* A handle that carries the tag 9 has been given the tag 1: both words are
\* held and they differ in the tag only.
C19_Witness ==
    \E h \in BagToSet(owned), w \in BagToSet(owned) :
        /\ alignT = 16
        /\ h % alignT = 9
        /\ w % alignT = 1
        /\ h - (h % alignT) = w - (w % alignT)


\* ---------------------------------------------------------------------------
\* C20: for every pointer word p whose low mask bits are zero and every tag t,
\* tags wider than the mask included, decomposing compose_tag(p, t) gives back
\* p and t mod (mask + 1): the bits of the tag beyond the mask are dropped and
\* the pointer bits are left alone.
C20_CodecRoundTrip ==
    (probe.op = "decomposed" /\ probe.data % probe.align = 0) =>
        probe.out = <<probe.data, probe.tag % probe.align>>

\* A tag wider than the mask has been composed with a pointer word and
\* decomposed again.
C20_Witness ==
    /\ probe.op = "decomposed"
    /\ probe.align = 4
    /\ probe.data = Addr(1)
    /\ probe.tag = MaxTag
    /\ probe.out[2] < probe.tag


\* ---------------------------------------------------------------------------
\* C21: low_bits::<T>() is align_of(T) - 1 for every power-of-two alignment,
\* 0 for alignment 1 and 0b111 for alignment 8.
C21_LowBitsIsAlignMinusOne ==
    probe.op = "low_bits" => probe.mask = probe.align - 1

\* The mask of an 8-byte-aligned type has been computed.
C21_Witness ==
    /\ probe.op = "low_bits"
    /\ probe.align = 8
    /\ probe.mask = 7


\* ---------------------------------------------------------------------------
\* C22: for a pointee of alignment 1 a handle can be built with any tag
\* (compose or with_tag); its word is the untagged pointer and tag() is 0.
C22_NoTagBits ==
    alignT = 1 =>
        \A h \in BagToSet(owned) :
            /\ AllocAt(h) \in Allocs
            /\ as_raw(h) = h
            /\ tag(h) = 0

\* Two handles to a pointee of alignment 1 are held, one of them built with a
\* tag by compose or with_tag.
C22_Witness ==
    /\ alignT = 1
    /\ BagCardinality(owned) = 2
    /\ \E h \in BagToSet(owned) : as_raw(h) = Addr(2)


\* C23: for every pointee alignment, decompose of a handle built by compose or
\* by from_arc and with_tag returns a reference to the allocation the handle
\* was built from and the tag modulo the alignment, and tag() and as_raw() read
\* the word under the mask it was written with.  The code breaks this for a
\* pointee aligned to more than a word: the word is written under the mask of
\* T and read under the mask of Arc<T>, so a tag bit above that mask is read
\* as a pointer bit.
C23_HandleRoundTrip ==
    /\ [](\A h \in BagToSet(owned) :
             /\ as_raw(h) = h - (h % alignT)
             /\ tag(h) = h % alignT)
    /\ [][\A h \in BagToSet(owned) :
             decompose(h) =>
                /\ shared' = shared (+) Bag1(h - (h % alignT))
                /\ DecomposeOut(h)[2] = h % alignT]_vars


\* ---------------------------------------------------------------------------
\* The nullable slot is empty: the word that store, swap and compare-exchange
\* write is the zero word.
SlotEmpty == slot = 0

\* The value that is in the slot: the one whose word the slot holds, None for
\* the zero word.
SlotElem ==
    IF slot = 0 THEN 0
    ELSE IF nullable /\ ~tag_feature THEN slot + ArcDataOffset
    ELSE slot

\* C24: the nullable slot is empty exactly when the value installed last was
\* None.  A store or a swap leaves the slot empty if and only if it was given
\* None, a swap returns the value the slot held (None if it was empty), a
\* compare-exchange installs new if it succeeds and leaves the slot alone if it
\* fails, a load returns None if and only if the slot is empty when it reads,
\* is_none on the slot answers true if and only if the slot is empty,
\* and no other step changes whether the slot is empty.  The code breaks
\* this: the load and is_none can read a word the slot held before the last
\* write, and
\* the swap of Option<Arc<T>> returns a value built on the slot's word, which
\* lies ArcDataOffset below the value the slot holds.
C24_EmptyIffNoneInstalled ==
    [][/\ \A val \in OptValues, order \in Orderings :
            (opt_store(val, order) /\ ~StorePanics(order)) => (SlotEmpty' <=> val = 0)
       /\ \A val \in OptValues, order \in Orderings :
            opt_swap(val, order) =>
               /\ SlotEmpty' <=> val = 0
               /\ Started.word = SlotElem
               /\ Started.kind = (IF SlotEmpty THEN "None" ELSE "Val")
       /\ \A current \in OptValues, new \in OptValues, o \in CasOrders, spurious \in BOOLEAN :
            (\/ opt_compare_exchange(current, new, o[1], o[2])
             \/ opt_compare_exchange_weak(current, new, o[1], o[2], spurious)) =>
               IF Started.kind \in {"Ok", "OkNone"}
               THEN SlotEmpty' <=> new = 0
               ELSE slot' = slot
       /\ \A order \in Orderings :
            (opt_load(order) /\ ~LoadPanics(order)) => (Started.kind = "None" <=> SlotEmpty)
       /\ is_none => (Started.kind = "True" <=> SlotEmpty)
       /\ (nullable /\ slot' # slot) =>
            \/ \E val \in OptValues, order \in Orderings :
                  opt_store(val, order) \/ opt_swap(val, order)
            \/ \E f \in BagToSet(calls), spurious \in BOOLEAN :
                  \E r \in OptFnResults(f.word) : OptFuApply(f, r, spurious)
            \/ \E current \in OptValues, new \in OptValues, o \in CasOrders, spurious \in BOOLEAN :
                  \/ opt_compare_exchange(current, new, o[1], o[2])
                  \/ opt_compare_exchange_weak(current, new, o[1], o[2], spurious)]_vars

\* swap(None) has emptied a slot that held a value and returned that value.
C24_Witness ==
    /\ nullable
    /\ SlotEmpty
    /\ \E f \in BagToSet(calls) : f.op = "swap" /\ f.kind = "Val" /\ f.arg = 0


\* C25: the word of every handle and of every shared reference is non-zero,
\* whatever its pointer and tag; the slot that is not nullable never holds the
\* zero word, so the non-zero expectations of its operations never fail; and
\* on the nullable slot a result is None exactly when its word is zero.
C25_ZeroWordIsNone ==
    /\ \A h \in BagToSet(owned) \cup BagToSet(shared) : h # 0
    /\ ~nullable => slot # 0
    /\ \A f \in BagToSet(calls) :
          /\ f.kind \in {"Val", "Ok", "Err"} => f.word # 0
          /\ f.kind \in {"None", "OkNone", "ErrNone"} => (nullable /\ f.word = 0)

\* The slot that is not nullable has been given a tagged handle by a swap or
\* a compare-exchange, and a handle came back.
C25_Witness ==
    /\ ~nullable
    /\ tag_feature
    /\ slot % alignT # 0
    /\ \E f \in BagToSet(calls) : f.op \in {"swap", "compare_exchange"} /\ f.kind \in {"Val", "Ok"}


\* C26: on the nullable slot a compare-exchange (strong, or weak without a
\* spurious failure) whose current is None fails against a slot that holds a
\* value, returns Err with the slot's word and leaves the slot unchanged;
\* against an empty slot it succeeds, installs new and returns Ok(None); when
\* it returns None no strong count has changed.  The code breaks this for
\* Option<Arc<T>>: the Err value is built on the slot's word, which lies
\* ArcDataOffset below the value the slot holds.
C26_CasFromNone ==
    [][\A new \in OptValues, o \in CasOrders :
          ((\/ opt_compare_exchange(0, new, o[1], o[2])
            \/ opt_compare_exchange_weak(0, new, o[1], o[2], FALSE))
           /\ ~CasPanics(o[1], o[2])) =>
             IF SlotEmpty
             THEN /\ SlotElem' = new
                  /\ Started.kind = "OkNone"
                  /\ Started.pc = "done"
                  /\ strong' = strong
             ELSE /\ slot' = slot
                  /\ Started.kind = "Err"
                  /\ Started.word = SlotElem
                  /\ strong' = strong]_vars

\* A compare-exchange from None has installed a value in a slot that was
\* empty.
C26_Witness ==
    /\ nullable
    /\ ~SlotEmpty
    /\ \E f \in BagToSet(calls) : f.op = "compare_exchange_weak" /\ f.kind = "OkNone"


\* C27: on the nullable slot a compare_exchange_weak that does not fail
\* spuriously has the effect of compare_exchange: the same word in the slot,
\* a result of the same kind whose value has the word the atomic operation
\* returned, no change of a strong count once it has returned, and nothing
\* else done to memory.  The code breaks this: Option<TaggedArc<T>>'s weak
\* form clones the value of its result, which re-reads the word under the mask
\* of Arc<T> and touches the strong count of whatever that pointer names.
C27_WeakAsStrongNullable ==
    /\ [][\A current \in OptValues, new \in OptValues, o \in CasOrders :
             (opt_compare_exchange_weak(current, new, o[1], o[2], FALSE)
              /\ ~CasPanics(o[1], o[2])) =>
                LET r == cas_word(slot, opt_into_usize(current), opt_into_usize(new))
                IN  /\ slot' = r[3]
                    /\ Started.kind = (IF Started.pc = "done" THEN OptKind(r[1], r[2]) ELSE r[1])
                    /\ Started.word = r[2]]_vars
    /\ [][\A f \in BagToSet(calls) :
             (nullable /\ f.op = "compare_exchange_weak" /\ (LoadClone(f) \/ CloneDrop(f))) =>
                viol' = viol]_vars
    /\ [](\A f \in BagToSet(calls) :
             (nullable /\ f.op = "compare_exchange_weak" /\ f.pc = "done"
              /\ f.kind \in {"Ok", "Err"}) =>
                (f.word = f.arg /\ f.delta = 0))


\* ---------------------------------------------------------------------------
\* C28: from_usize(h.into_usize()) is Some handle with the pointer bits and
\* the tag of h, from_usize(0) is None, and neither conversion changes a
\* strong count or frees anything.
C28_RawWordRoundTrip ==
    /\ [](probe.op = "handle" =>
             IF probe.from = 0
             THEN probe.out[1] = "None"
             ELSE /\ probe.out[1] = "Some"
                  /\ probe.out[2] - (probe.out[2] % alignT) = probe.from - (probe.from % alignT)
                  /\ probe.out[2] % alignT = probe.from % alignT)
    /\ [][((\E h \in BagToSet(owned) : HandleIntoUsize(h)) \/ HandleFromUsize) =>
             (strong' = strong /\ status' = status)]_vars

\* A handle that carries the tag 9 has been turned into a usize and back.
C28_Witness ==
    /\ probe.op = "handle"
    /\ alignT = 16
    /\ probe.from % alignT = 9
    /\ BagIn(probe.from, owned)


\* ---------------------------------------------------------------------------
\* C29: composing a tag into a pointer word whose low mask bits are not all
\* zero is rejected by an assertion, so a composition that completes was given
\* an aligned word and its pointer part is the word it was given.  The code
\* breaks this: compose_tag has no such check (ensure_aligned is commented
\* out) and clears the low bits of the word it is given.
C29_UnalignedRejected ==
    probe.op \in {"composed", "decomposed"} =>
        /\ probe.data % probe.align = 0
        /\ probe.word - (probe.word % probe.align) = probe.data


\* ---------------------------------------------------------------------------
\* C30: when a value is installed with an ordering that releases and a load
\* with an ordering that acquires returns that value, the loading thread sees
\* the contents written to the pointee before the installation.  The code
\* breaks this: load copies the slot's word with a plain read and applies its
\* ordering to the copy, so it never acquires what the installation released.
C30_ReleaseAcquireVisibility ==
    (/\ probe.op = "vis"
     /\ probe.pc2 = "read"
     /\ probe.word = Addr(2)
     /\ Releases(probe.so)
     /\ Acquires(probe.lo)) => probe.seen = "written"


\* ---------------------------------------------------------------------------
\* C31: formatting a handle with Debug reads the pointee and consumes
\* nothing: every strong count is the same after the call as before it and no
\* allocation is freed.  The code breaks this: fmt builds an Arc from the
\* handle's pointer and drops it on return, which takes one from the count.
C31_DebugKeepsCount ==
    [][\A h \in BagToSet(owned) :
          fmt(h) => (strong' = strong /\ status' = status /\ viol' = viol)]_vars


\* ---------------------------------------------------------------------------
\* The frame a turn of fetch_update's loop leaves in place of the frame f.
FuNext(f) == CHOOSE g \in BagToSet(calls') : calls' = (calls (-) Bag1(f)) (+) Bag1(g)

\* C32: a fetch_update call writes the slot at most once.  The load that opens
\* the call and the return of its result leave the slot alone; a turn in which
\* f answers None leaves the slot alone and ends the call with Err carrying
\* prev; a turn whose compare_exchange_weak fails leaves the slot alone; and
\* the turn that ends the call with Ok is the one that writes, replacing prev
\* by the word of f(prev).
C32_FetchUpdateWritesOnce ==
    [][/\ \A o \in CasOrders : fetch_update(o[1], o[2]) => slot' = slot
       /\ \A f \in BagToSet(calls) :
             (f.op = "fetch_update" /\ (LoadClone(f) \/ CloneDrop(f) \/ Return(f))) =>
                slot' = slot
       /\ \A f \in BagToSet(calls), spurious \in BOOLEAN :
             \A r \in FnResults(f.word) :
                FuApply(f, r, spurious) =>
                   IF r.kind = "None"
                   THEN /\ slot' = slot
                        /\ FuNext(f).pc = "done" /\ FuNext(f).kind = "Err"
                        /\ FuNext(f).word = f.word
                   ELSE IF FuNext(f).pc = "done" /\ FuNext(f).kind = "Ok"
                   THEN slot = f.word /\ slot' = r.word
                   ELSE slot' = slot /\ FuNext(f).pc = "apply"]_vars

\* One call has ended with Ok and written a new word while a second call still
\* holds, as its prev, the word the first one replaced: the compare-exchange
\* of the second call is bound to fail.
C32_Witness ==
    \E f \in BagToSet(calls), g \in BagToSet(calls) :
        /\ f.op = "fetch_update" /\ f.pc = "done" /\ f.kind = "Ok"
        /\ g.op = "fetch_update" /\ g.pc = "apply"
        /\ g.word = f.word
        /\ slot # f.word


\* C33: the values the closure of fetch_update sees.  The first turn of the
\* loop runs on the value the opening load returned; a turn whose
\* compare_exchange_weak fails hands the next turn the word that failure
\* reported, which is the word the slot held at that attempt; between two
\* turns the call does not read the slot again, so its prev stays what it was
\* whatever other callers write; and every turn asks the closure once, about
\* the prev of that turn.
C33_ClosureInputs ==
    [][/\ \A f \in BagToSet(calls) :
             (f.op = "fetch_update" /\ CloneDrop(f)) =>
                /\ FuNext(f).pc = "apply" /\ FuNext(f).kind = "none"
                /\ FuNext(f).word = CloneWord(f.arg)
                /\ slot' = slot
       /\ \A f \in BagToSet(calls), spurious \in BOOLEAN :
             \A r \in FnResults(f.word) :
                (FuApply(f, r, spurious) /\ FuNext(f).pc = "apply") =>
                   /\ r.kind = "Some"
                   /\ FuNext(f).kind = "retry"
                   /\ FuNext(f).word = slot
                   /\ (~spurious => slot # f.word)
       /\ \A f \in BagToSet(calls) :
             (f.op = "fetch_update" /\ f.pc = "apply") =>
                \/ CopiesIn(f, calls') >= CopiesIn(f, calls)
                \/ \E spurious \in BOOLEAN : \E r \in FnResults(f.word) : FuApply(f, r, spurious)]_vars

\* A call is going round the loop again with the word its failed attempt
\* reported, and another caller has changed the slot since.
C33_Witness ==
    \E f \in BagToSet(calls) :
        /\ f.op = "fetch_update" /\ f.pc = "apply" /\ f.kind = "retry"
        /\ slot # f.word


\* ---------------------------------------------------------------------------
\* C34: tag() and as_raw() are pure reads.  tag() returns the tag the handle's
\* word carries and as_raw() the pointer of that word with the tag taken off,
\* which is the pointer the handle got from its shared reference; neither
\* changes the handles held or a strong count.  The code breaks the first
\* half for a pointee aligned to more than a word: both accessors read the
\* word under the mask of Arc<T>, so of a tag that uses the fourth bit tag()
\* returns the low three bits and as_raw() a pointer into the pointee.
C34_AccessorsArePureReads ==
    /\ [](probe.op = "read" =>
             probe.out = IF probe.fn = "tag"
                         THEN probe.word % alignT
                         ELSE probe.word - (probe.word % alignT))
    /\ [][\A h \in BagToSet(owned) :
             (HandleTag(h) \/ HandleAsRaw(h)) =>
                 (owned' = owned /\ strong' = strong /\ status' = status /\ viol' = viol)]_vars


\* ---------------------------------------------------------------------------
\* C35: AtomicArc::new, from_arc and from_tagged make the slot's word the word
\* of the value they are given, pointer and tag, and take over its reference
\* without changing a strong count, so that a load from the new slot returns
\* that pointer and that tag.  The code breaks the last part for a pointee
\* aligned to more than a word: the load clones the word under the mask of
\* Arc<T>, and for a handle whose tag uses the fourth bit it hands
\* Arc::from_raw a pointer into the pointee.
C35_ConstructionKeepsWord ==
    /\ []((probe.op = "built" /\ probe.by \in {"new", "from_arc", "from_tagged"}) =>
             /\ slot = probe.word
             /\ viol = {}
             /\ \A f \in BagToSet(calls) :
                   (f.op = "load" /\ f.pc = "done" /\ f.kind = "Val") => f.word = probe.word)
    /\ [][((\E p \in BagToSet(shared) : AtomicArc_new(p) \/ AtomicArc_from_arc(p))
              \/ (\E h \in BagToSet(owned) : from_tagged(h))) =>
             (strong' = strong /\ status' = status)]_vars


\* ---------------------------------------------------------------------------
\* The step starts a call.
Invoked == BagCardinality(calls') = BagCardinality(calls) + 1

\* C36: reads are linearizable.  The word a load, a swap or a compare-exchange
\* takes from the slot is the word the slot holds at the step that reads it,
\* between the call's invocation and its return, and the value the call
\* returns is that word: the clone that a load makes of it has the same
\* pointer and the same tag.  The code breaks the last part for a pointee
\* aligned to more than a word: the clone reads the word under the mask of
\* Arc<T>, so for a tag that uses the fourth bit the value returned is not
\* the word that was read; and the read of a load can return a word the
\* slot held before the call was invoked.
C36_LinearizableReads ==
    [][/\ (/\ Invoked
           /\ Started.op \in {"load", "swap", "compare_exchange", "compare_exchange_weak"}
           /\ Started.kind # "Panic") => Started.word = slot
       /\ \A f \in BagToSet(calls) :
             (LoadClone(f) \/ CloneDrop(f)) =>
                /\ CloneWord(f.word) = f.word
                /\ FuNext(f).word = f.word
       /\ \A f \in BagToSet(calls) :
             (Return(f) /\ f.kind \in {"Val", "Ok", "Err"}) =>
                ElemPool' = ElemPool (+) Bag1(f.word)]_vars


\* ---------------------------------------------------------------------------
\* The values there are: the word of the slot, the values the callers hold and
\* the values finished swaps are about to hand to their callers.  None, the
\* zero word, is no value.
BagOfWord(w) == IF w = 0 THEN EmptyBag ELSE Bag1(w)

RECURSIVE ReturnedBy(_)
ReturnedBy(b) ==
    IF b = EmptyBag THEN EmptyBag
    ELSE LET f == CHOOSE g \in BagToSet(b) : TRUE
         IN  (IF f.pc = "done" /\ f.kind \in {"Val", "Ok", "Err"} THEN BagOfWord(f.word) ELSE EmptyBag)
                (+) ReturnedBy(b (-) Bag1(f))

\* C37: swap conserves handles.  When the threads only call swap, the words
\* the swaps have returned together with the slot's word are, as a multiset,
\* the word the slot started with together with the words passed to swap:
\* whatever the interleaving, the slot's word, the values the callers still
\* hold and the values returned to them add up to the values of the start.
\* The code breaks this for Option<Arc<T>>: the value a swap returns is built
\* on the slot's word, which lies ArcDataOffset below the value installed.
C37_SwapConservesHandles ==
    probe.op = "swap" =>
        BagOfWord(SlotElem) (+) ElemPool (+) ReturnedBy(calls)
            = BagOfWord(probe.slot0) (+) probe.pool0

\* Both values the callers started with have been swapped in, one after the
\* other, and the second swap is handing back the first: the slot holds the
\* second, the callers hold the word the slot started with.
C37_Witness ==
    /\ probe.op = "swap"
    /\ \E f \in BagToSet(calls) :
          /\ f.op = "swap" /\ f.pc = "done" /\ f.kind = "Val"
          /\ f.word # probe.slot0
          /\ f.word # f.arg
          /\ slot = f.arg
          /\ ElemPool = Bag1(probe.slot0)


\* ---------------------------------------------------------------------------
\* The calls of the race that have returned Ok: an Ok hands back the word w,
\* and a thread that has not called yet still holds its own.
RaceOks ==
    CopiesIn(probe.w, ElemPool)
        + BagCardinality([f \in {g \in BagToSet(calls) : g.kind = "Ok"} |-> calls[f]])
        - (Racers - RaceStarted)

\* C38: compare-and-swap is mutually exclusive.  When several threads call
\* the strong compare_exchange with the same current w and new words other
\* than w on a slot that holds w, and nothing else writes, exactly one call
\* returns Ok: the first to act, whose new word the slot holds from then on;
\* every other call returns Err carrying that word.  When all have returned
\* the callers hold w once and the winner's word once for every loser.
C38_CasMutualExclusion ==
    probe.op = "race" =>
        /\ RaceOks = (IF RaceStarted = 0 THEN 0 ELSE 1)
        /\ (slot = probe.w) <=> (RaceStarted = 0)
        /\ RaceStarted > 0 => BagIn(slot, probe.news)
        /\ \A f \in BagToSet(calls) :
              /\ f.kind \in {"Ok", "Err"}
              /\ f.kind = "Ok" => f.word = probe.w
              /\ f.kind = "Err" => f.word = slot
        /\ (RaceStarted = Racers /\ calls = EmptyBag) =>
              ElemPool = Bag1(probe.w) (+) [x \in {slot} |-> Racers - 1]

\* All threads have returned, their new words were different ones, and the
\* callers hold w and the winner's word.
C38_Witness ==
    /\ probe.op = "race"
    /\ RaceStarted = Racers /\ calls = EmptyBag
    /\ \E n \in BagToSet(probe.news) : n # slot
    /\ BagIn(probe.w, ElemPool) /\ BagIn(slot, ElemPool)


\* ---------------------------------------------------------------------------
\* C39: a compare-exchange that succeeds accounts for both references to the
\* old value, the one of current and the one the slot held: one is the Ok
\* value and the call releases the other, so the strong count of the old
\* allocation goes down by one in the call (stated where new is of another
\* allocation) and is two lower than before once the caller has dropped the
\* Ok value.  The code breaks this: current is turned into a raw word and
\* never released, no strong count changes.
C39_CasSuccessReferences ==
    [][\A current \in BagToSet(ElemPool), new \in BagToSet(ElemPool),
          o \in CasOrders, spurious \in BOOLEAN :
          (CasStep(current, new, o, spurious) /\ Started.kind = "Ok") =>
              LET c == Pointee(current)
              IN  (Pointee(new) # c) => strong'[c] = strong[c] - 1]_vars


\* ---------------------------------------------------------------------------
\* C40: in the first drafts of the codec low_bits::<T>() is the mask of the
\* unused low bits of a pointer to T and nothing more, computed without
\* overflow for every alignment, so that for every word aligned for T and
\* every tag below the alignment decompose_tag(compose_tag(raw, tag)) is
\* (raw, tag).  The drafts break this: they shift 1 by the alignment instead
\* of its logarithm, so the mask of a 4-byte-aligned type is 0b1111 and covers
\* two pointer bits, which composing clears, and for an alignment of the
\* word's width or more the shift overflows.
C40_DraftCodec ==
    /\ probe.op = "draft_low_bits" => probe.mask = <<"Val", probe.align - 1>>
    /\ probe.op = "draft_composed" => probe.word[1] = "Val"
    /\ probe.op = "draft_decomposed" => probe.out = <<"Val", <<probe.data, probe.tag>>>>

====
